---- MODULE Spec2Model ----
(***************************************************************************)
(* A model of krisds/mnmlst: prsly, the minimalist parser combinators      *)
(* (src/prsly/prsly.js: the lazy Stream, the parsers and the combinators), *)
(* pvm, the process virtual machine (src/pvm/pvm.js), and dfntly, the      *)
(* dataflow engine (src/dfntly/dfntly.js).                                 *)
(***************************************************************************)
EXTENDS Integers, Sequences, FiniteSets, TLC

(***************************************************************************)
(* Bounds of the model.                                                    *)
(***************************************************************************)
\* The longest input (string or list) a stream is built from.
MaxLen == 3

\* The characters an input string is made of.
Chars == {"a", "b"}

\* The longest string of square brackets given to box, and its characters.
MaxBox == 6
BoxChars == {"[", "]"}

\* The longest string of parentheses given to parens, and its characters.
MaxParens == 6
ParenChars == {"(", ")"}

(***************************************************************************)
(* JavaScript values.  Every value is a record of the same shape: k is the *)
(* kind of value, a its atom (a character, the name of a mapping function) *)
(* and items its elements (an array) or argument (a mapped value).         *)
(***************************************************************************)
Val(k, a, items) == [k |-> k, a |-> a, items |-> items]

\* JavaScript's undefined and null.
undefined == Val("undefined", "", <<>>)
null == Val("null", "", <<>>)

\* A one-character string, an array, an object (a value that is no string).
\* A number is written as its numeral: Num("1") is 1, Tok("1") is '1'.
Tok(c) == Val("tok", c, <<>>)
Num(n) == Val("number", n, <<>>)
Arr(xs) == Val("array", "", xs)
Obj(n) == Val("object", n, <<>>)

\* A parser as a value: the function object named p.
ParserRef(p) == Val("parser", p, <<>>)

\* JavaScript's loose comparison with null: x == null.
IsNullish(x) == x = null \/ x = undefined

\* References to Stream objects: an object is named by its index in streams;
\* a reference can also be null or undefined.
NullRef == 0
UndefinedRef == -1

\* prsly.js: let NO_MATCH = null, let NO_VALUE = undefined.
NO_MATCH == NullRef
NO_VALUE == undefined

(***************************************************************************)
(* The state.                                                              *)
(*   generator  the closure made by from_string or from_list: its input    *)
(*              and its position;                                          *)
(*   streams    the Stream objects made so far, in the order they were     *)
(*              constructed.  lazy_head and lazy_tail are the object's     *)
(*              fields.  The other fields observe the run and are never    *)
(*              read by the program: depth (the number of tail() steps     *)
(*              from the first stream), pulls (the generator calls this    *)
(*              object made), first_head and first_tail (what the first    *)
(*              head() and tail() on this object returned);                *)
(*   value_fn   for each fluent parser, the variable value_fn of its       *)
(*              closure: the mapping function now in use;                  *)
(*   parser     for each parser made by to_be_defined, the variable parser *)
(*              of its closure: the parser now bound;                      *)
(*   ret        the last call the client made, and what it returned.       *)
(***************************************************************************)
VARIABLES generator, streams, value_fn, parser, ret

(***************************************************************************)
(* The state of pvm.                                                       *)
(*   processes  var processes: the queue of the active processes;          *)
(*   ticks      the calls of tick that process.nextTick has been asked for *)
(*              and that have not run yet;                                 *)
(*   created    the number of Process objects made so far; a process is    *)
(*              named by its number (observation only);                    *)
(*   stepped    the last call of activate or tick, and for tick the number *)
(*              of processes it found in the queue, the process it stepped *)
(*              and whether it ended in an exception (observation only).   *)
(***************************************************************************)
VARIABLES processes, ticks, created, stepped

(***************************************************************************)
(* The state of dfntly.                                                    *)
(*   nodes      the Node objects: for each its value and its               *)
(*              downstream_nodes;                                          *)
(*   nodes_to_be_recalculated   the queue of the engine;                   *)
(*   immediates the calls of run_engine that setImmediate has been asked   *)
(*              for and that have not run yet;                             *)
(*   ran        the last call of set_value or run_engine, and the node it  *)
(*              was made on or recalculated (observation only).            *)
(***************************************************************************)
VARIABLES nodes, nodes_to_be_recalculated, immediates, ran

prsly_vars == <<generator, streams, value_fn, parser, ret>>
pvm_vars == <<processes, ticks, created, stepped>>
dfntly_vars == <<nodes, nodes_to_be_recalculated, immediates, ran>>

vars == <<generator, streams, value_fn, parser, ret,
          processes, ticks, created, stepped,
          nodes, nodes_to_be_recalculated, immediates, ran>>

\* The part of the state the Stream methods work on.
Heap == [generator |-> generator, streams |-> streams]

\* function Stream(generator_fn): the fields of a new object.
Stream(depth) ==
    [lazy_head |-> undefined, lazy_tail |-> UndefinedRef,
     depth |-> depth, pulls |-> 0,
     first_head |-> undefined, first_tail |-> UndefinedRef]

\* from_string(string): the closure's function.  It returns the character at
\* position and moves on, or null once position has reached the length.
from_string(g) ==
    IF g.position < Len(g.input)
    THEN [value |-> g.input[g.position + 1],
          g |-> [g EXCEPT !.position = @ + 1]]
    ELSE [value |-> null, g |-> g]

\* from_list(list): the same over the elements of a list.
from_list(g) ==
    IF g.position < Len(g.input)
    THEN [value |-> g.input[g.position + 1],
          g |-> [g EXCEPT !.position = @ + 1]]
    ELSE [value |-> null, g |-> g]

\* this.generator_fn()
generator_fn(g) == IF g.kind = "string" THEN from_string(g) ELSE from_list(g)

\* A head() that calls the generator on every call (the test of lazy_head
\* left out).
head_uncached(h, s) ==
    LET made == generator_fn(h.generator)
    IN  [value |-> made.value,
         h |-> [generator |-> made.g,
                streams |-> [h.streams EXCEPT
                    ![s].lazy_head = made.value,
                    ![s].pulls = @ + 1,
                    ![s].first_head =
                        IF h.streams[s].pulls = 0 THEN made.value ELSE @]]]

\* A head() that tests the cached value for truth, if (!this.lazy_head), and
\* so asks the generator again at the end of the input, where it is null.
head_falsy(h, s) ==
    IF IsNullish(h.streams[s].lazy_head)
    THEN LET made == generator_fn(h.generator)
         IN  [value |-> made.value,
              h |-> [generator |-> made.g,
                     streams |-> [h.streams EXCEPT
                         ![s].lazy_head = made.value,
                         ![s].pulls = @ + 1,
                         ![s].first_head =
                             IF h.streams[s].pulls = 0 THEN made.value ELSE @]]]
    ELSE [value |-> h.streams[s].lazy_head, h |-> h]

\* Stream.prototype.head on the object s: the value it returns and the heap
\* it leaves.
head(h, s) ==
    IF h.streams[s].lazy_head = undefined
    THEN LET made == generator_fn(h.generator)
         IN  [value |-> made.value,
              h |-> [generator |-> made.g,
                     streams |-> [h.streams EXCEPT
                         ![s].lazy_head = made.value,
                         ![s].pulls = @ + 1,
                         ![s].first_head =
                             IF h.streams[s].pulls = 0 THEN made.value ELSE @]]]
    ELSE [value |-> h.streams[s].lazy_head, h |-> h]

\* A tail() that makes the next Stream without looking at its own head.
tail_without_head(h, s) ==
    IF h.streams[s].lazy_tail = UndefinedRef
    THEN LET new == Len(h.streams) + 1
         IN  [next |-> new,
              h |-> [h EXCEPT !.streams =
                        Append([@ EXCEPT ![s].lazy_tail = new,
                                         ![s].first_tail = new],
                               Stream(h.streams[s].depth + 1))]]
    ELSE [next |-> h.streams[s].lazy_tail, h |-> h]

\* A tail() that does not keep the Stream it makes: every call makes one.
tail_uncached(h, s) ==
    LET hd == head(h, s)
        new == Len(hd.h.streams) + 1
    IN  IF IsNullish(hd.value)
        THEN [next |-> NullRef,
              h |-> [hd.h EXCEPT !.streams[s].lazy_tail = NullRef,
                                 !.streams[s].first_tail =
                                     IF @ = UndefinedRef THEN NullRef ELSE @]]
        ELSE [next |-> new,
              h |-> [hd.h EXCEPT !.streams =
                        Append([@ EXCEPT ![s].first_tail =
                                     IF @ = UndefinedRef THEN new ELSE @],
                               Stream(hd.h.streams[s].depth + 1))]]

\* A tail() that asks for the head of the Stream it makes, at once.
tail_eager(h, s) ==
    IF h.streams[s].lazy_tail = UndefinedRef
    THEN LET hd == head(h, s)
             new == Len(hd.h.streams) + 1
             made == [hd.h EXCEPT !.streams =
                         Append([@ EXCEPT ![s].lazy_tail = new,
                                          ![s].first_tail = new],
                                Stream(hd.h.streams[s].depth + 1))]
         IN  IF IsNullish(hd.value)
             THEN [next |-> NullRef,
                   h |-> [hd.h EXCEPT !.streams[s].lazy_tail = NullRef,
                                      !.streams[s].first_tail = NullRef]]
             ELSE [next |-> new, h |-> head(made, new).h]
    ELSE [next |-> h.streams[s].lazy_tail, h |-> h]

\* Stream.prototype.tail on the object s: the reference it returns and the
\* heap it leaves.
tail(h, s) ==
    IF h.streams[s].lazy_tail = UndefinedRef
    THEN LET hd == head(h, s)
             new == Len(hd.h.streams) + 1
         IN  IF IsNullish(hd.value)
             THEN [next |-> NullRef,
                   h |-> [hd.h EXCEPT !.streams[s].lazy_tail = NullRef,
                                      !.streams[s].first_tail = NullRef]]
             ELSE [next |-> new,
                   h |-> [hd.h EXCEPT !.streams =
                             Append([@ EXCEPT ![s].lazy_tail = new,
                                              ![s].first_tail = new],
                                    Stream(hd.h.streams[s].depth + 1))]]
    ELSE [next |-> h.streams[s].lazy_tail, h |-> h]

(***************************************************************************)
(* Mapping functions.  A mapping function is named; call_fn is what it     *)
(* returns for a value.                                                    *)
(*   identity        a => a, the value_fn a fluent parser starts with      *)
(*   constant_A      a => 'A', constant_value('A')                         *)
(*   constant_B      a => 'B'                                              *)
(*   ignored_value   x => undefined                                        *)
(*   first_value     xs => xs[0]                                           *)
(*   constant_null   a => null                                             *)
(*   boxed           value => new Message(value), an object holding value  *)
(***************************************************************************)
call_fn(f, v) ==
    CASE f = "identity" -> v
      [] f = "constant_A" -> Tok("A")
      [] f = "constant_B" -> Tok("B")
      [] f = "constant_null" -> null
      [] f = "ignored_value" -> undefined
      [] f = "first_value" ->
            IF v.k = "array" /\ Len(v.items) > 0 THEN v.items[1]
            ELSE IF v.k = "tok" THEN v ELSE undefined
      [] f = "boxed" -> Val("object", "boxed", <<v>>)

(***************************************************************************)
(* The parsers the client has built.  A parser is an object, named by a    *)
(* string; Grammar gives for each the combinator that made it (op), the    *)
(* test of a single value (test), the parsers it was made from (parsers,   *)
(* by name: a parser holds references to them) and the mapping function    *)
(* given to .as() where it was built (fn).                                 *)
(***************************************************************************)
Parser(op, test, parsers, fn) ==
    [op |-> op, test |-> test, parsers |-> parsers, fn |-> fn]

\* The functions given to is(): actual => actual == expected, x => true and
\* x => false.
Equals(expected) == [fn |-> "equals", expected |-> expected]
Always(result) == [fn |-> IF result THEN "true" ELSE "false", expected |-> ""]

\* JavaScript's loose comparison x == y of the values of the model: the same
\* value; null and undefined; a string and a number when the string, read as
\* a number, is that number ('1' == 1).
loosely_equal(x, y) ==
    \/ x = y
    \/ IsNullish(x) /\ IsNullish(y)
    \/ {x.k, y.k} = {"tok", "number"} /\ x.a = y.a

\* test_value_fn(value)
test_value_fn(test, value) ==
    CASE test.fn = "equals" -> loosely_equal(value, test.expected)
      [] test.fn = "true" -> TRUE
      [] test.fn = "false" -> FALSE

\* literal(expected) is is(actual => actual == expected)
literal(expected, fn) == Parser("is", Equals(expected), <<>>, fn)

Grammar ==
    [ \* let any = is(x => true), let none = is(x => false), at_end
      any |-> Parser("is", Always(TRUE), <<>>, "identity"),
      none |-> Parser("is", Always(FALSE), <<>>, "identity"),
      at_end |-> Parser("at_end", Always(FALSE), <<>>, "identity"),
      \* literal(...), as built and with .as(...)
      a |-> literal(Tok("a"), "identity"),
      b |-> literal(Tok("b"), "identity"),
      a_as_A |-> literal(Tok("a"), "constant_A"),
      a_as_B |-> literal(Tok("a"), "constant_B"),
      a_as_null |-> literal(Tok("a"), "constant_null"),
      a_ignored |-> literal(Tok("a"), "ignored_value"),
      \* literal('1') and literal(1)
      one |-> literal(Tok("1"), "identity"),
      number_one |-> literal(Num("1"), "identity"),
      \* sequence(...)
      seq_empty |-> Parser("sequence", Always(FALSE), <<>>, "identity"),
      seq_A_any |-> Parser("sequence", Always(FALSE),
                           <<"a_as_A", "any">>, "identity"),
      seq_null_ign_b |-> Parser("sequence", Always(FALSE),
                                <<"a_as_null", "a_ignored", "b">>, "identity"),
      seq_opt_b_end |-> Parser("sequence", Always(FALSE),
                               <<"opt_a", "b", "at_end">>, "identity"),
      \* the test's final_e = sequence(letter_e, at_end), and the like
      final_a |-> Parser("sequence", Always(FALSE), <<"a", "at_end">>, "identity"),
      final_many |-> Parser("sequence", Always(FALSE),
                            <<"many_a", "at_end">>, "identity"),
      final_opt |-> Parser("sequence", Always(FALSE),
                           <<"opt_a", "at_end">>, "identity"),
      \* many(...)
      many_a |-> Parser("many", Always(FALSE), <<"a">>, "identity"),
      many_any |-> Parser("many", Always(FALSE), <<"any">>, "identity"),
      many_ign_or_b |-> Parser("many", Always(FALSE),
                               <<"ch_ign_b">>, "identity"),
      many_at_end |-> Parser("many", Always(FALSE), <<"at_end">>, "identity"),
      many_opt |-> Parser("many", Always(FALSE), <<"opt_a">>, "identity"),
      many_many |-> Parser("many", Always(FALSE), <<"many_a">>, "identity"),
      \* choice(...)
      ch_empty |-> Parser("choice", Always(FALSE), <<>>, "identity"),
      ch_A_B |-> Parser("choice", Always(FALSE),
                        <<"a_as_A", "a_as_B">>, "identity"),
      ch_ign_b |-> Parser("choice", Always(FALSE),
                          <<"a_ignored", "b">>, "identity"),
      ch_seq_none_many |-> Parser("choice", Always(FALSE),
                                  <<"seq_null_ign_b", "none", "many_a">>,
                                  "identity"),
      \* optional(...)
      opt_a |-> Parser("optional", Always(FALSE), <<"a">>, "identity"),
      opt_seq |-> Parser("optional", Always(FALSE),
                         <<"seq_A_any">>, "identity"),
      opt_ign |-> Parser("optional", Always(FALSE),
                         <<"a_ignored">>, "identity"),
      \* to_be_defined(), and parsers made from it before it is defined
      later |-> Parser("to_be_defined", Always(FALSE), <<>>, "identity"),
      many_later |-> Parser("many", Always(FALSE), <<"later">>, "identity"),
      nested |-> Parser("sequence", Always(FALSE),
                        <<"a", "many_later", "b">>, "identity"),
      \* let parens = to_be_defined(), open = literal('('), close =
      \* literal(')'); parens.define(sequence(open, many(parens), close))
      parens |-> Parser("to_be_defined", Always(FALSE), <<>>, "identity"),
      open |-> literal(Tok("("), "identity"),
      close |-> literal(Tok(")"), "identity"),
      many_parens |-> Parser("many", Always(FALSE), <<"parens">>, "identity"),
      parens_body |-> Parser("sequence", Always(FALSE),
                             <<"open", "many_parens", "close">>, "identity"),
      \* skip_to(...); seq_skip_a is the test's sequence(skip_to(is_a), is_a)
      skip_to_a |-> Parser("skip_to", Always(FALSE), <<"a">>, "identity"),
      seq_skip_a |-> Parser("sequence", Always(FALSE),
                            <<"skip_to_a", "a">>, "identity"),
      skip_to_end |-> Parser("skip_to", Always(FALSE), <<"at_end">>, "identity"),
      skip_to_none |-> Parser("skip_to", Always(FALSE), <<"none">>, "identity"),
      skip_to_opt |-> Parser("skip_to", Always(FALSE), <<"opt_a">>, "identity"),
      skip_to_A_any |-> Parser("skip_to", Always(FALSE),
                               <<"seq_A_any">>, "identity"),
      \* enclosed(opening, inner, closing); the fourth parser is the
      \* skip_to(closing) that enclosed makes for itself
      enc_any |-> Parser("enclosed", Always(FALSE),
                         <<"a", "many_any", "b", "enc_any_skip">>, "identity"),
      enc_any_skip |-> Parser("skip_to", Always(FALSE), <<"b">>, "identity"),
      enc_a |-> Parser("enclosed", Always(FALSE),
                       <<"a", "a", "b", "enc_a_skip">>, "identity"),
      enc_a_skip |-> Parser("skip_to", Always(FALSE), <<"b">>, "identity"),
      enc_empty |-> Parser("enclosed", Always(FALSE),
                           <<"a", "seq_empty", "b", "enc_empty_skip">>,
                           "identity"),
      enc_empty_skip |-> Parser("skip_to", Always(FALSE), <<"b">>, "identity"),
      enc_end |-> Parser("enclosed", Always(FALSE),
                         <<"a", "many_a", "at_end", "enc_end_skip">>,
                         "identity"),
      enc_end_skip |-> Parser("skip_to", Always(FALSE),
                              <<"at_end">>, "identity"),
      \* the test's box: open = sequence(literal('['), literal('[')), close =
      \* sequence(literal(']'), literal(']')), inner = many(any)
      lb |-> literal(Tok("["), "identity"),
      rb |-> literal(Tok("]"), "identity"),
      box_open |-> Parser("sequence", Always(FALSE), <<"lb", "lb">>, "identity"),
      box_close |-> Parser("sequence", Always(FALSE), <<"rb", "rb">>, "identity"),
      box |-> Parser("enclosed", Always(FALSE),
                     <<"box_open", "many_any", "box_close", "box_skip">>,
                     "identity"),
      box_skip |-> Parser("skip_to", Always(FALSE), <<"box_close">>, "identity"),
      \* as(parser, mapping_fn): fn is its mapping_fn
      as_a_A |-> Parser("as", Always(FALSE), <<"a">>, "constant_A"),
      as_opt_A |-> Parser("as", Always(FALSE), <<"opt_a">>, "constant_A"),
      as_null_boxed |-> Parser("as", Always(FALSE), <<"a_as_null">>, "boxed"),
      as_many_first |-> Parser("as", Always(FALSE), <<"many_a">>, "first_value"),
      as_none_A |-> Parser("as", Always(FALSE), <<"none">>, "constant_A") ]

Parsers == DOMAIN Grammar

\* The parsers made by to_be_defined().
ToBeDefined == {p \in Parsers : Grammar[p].op = "to_be_defined"}

(***************************************************************************)
(* Calling a parser.  A call returns [stream, value] and leaves a heap; the*)
(* record of a call holds both, and                                        *)
(*   log      the calls this parser made of the parsers it was built from, *)
(*            in order, each with the stream it was given and what it      *)
(*            returned (observation only);                                 *)
(*   returns  FALSE when the call never returns: it loops for ever, or it  *)
(*            ends in an exception (value is then the error thrown);       *)
(*   applied  the calls of a mapping function made by the as() this parser *)
(*            is, each with its argument (observation only).               *)
(***************************************************************************)
Result(next, value, h, log, returns) ==
    [next |-> next, value |-> value, h |-> h, log |-> log, returns |-> returns,
     applied |-> <<>>]

\* One entry of a log: parser p was called on stream s and returned r.
Entry(p, s, r) ==
    [p |-> p, s |-> s, next |-> r.next, value |-> r.value, returns |-> r.returns]

\* A call that never returns.
Hangs(h, log) == Result(NO_MATCH, NO_VALUE, h, log, FALSE)

\* The TypeError JavaScript throws at null.head() and null.tail(), and a call
\* that ends in it.
TypeError == Val("TypeError", "", <<>>)
Throws(h, log) == Result(NO_MATCH, TypeError, h, log, FALSE)

\* The call of a parser did not return (r): the caller does not either, no
\* function of the library catches an exception.
Unwinds(r, log) == Result(NO_MATCH, r.value, r.h, log, FALSE)

\* next == NO_MATCH, JavaScript's loose comparison of a reference with null.
IsNoMatch(next) == next = NullRef \/ next = UndefinedRef

\* A match() that returns the stream it was given, not its tail.
match_in_place(test, stream, h) ==
    IF IsNoMatch(stream) THEN Throws(h, <<>>)
    ELSE LET hd == head(h, stream)
         IN  IF test_value_fn(test, hd.value)
             THEN Result(stream, hd.value, hd.h, <<>>, TRUE)
             ELSE Result(NO_MATCH, NO_VALUE, hd.h, <<>>, TRUE)

\* function match(test_value_fn)
match(test, stream, h) ==
    IF IsNoMatch(stream) THEN Throws(h, <<>>)
    ELSE LET hd == head(h, stream)
             tl == tail(hd.h, stream)
         IN  IF test_value_fn(test, hd.value)
             THEN Result(tl.next, hd.value, tl.h, <<>>, TRUE)
             ELSE Result(NO_MATCH, NO_VALUE, hd.h, <<>>, TRUE)

\* An as() that looks at the stream only, if (next === NO_MATCH): it maps the
\* absent value too.
as_of_no_value(r, mapping_fn) ==
    IF ~r.returns THEN [r EXCEPT !.applied = <<>>]
    ELSE IF r.next = NO_MATCH
         THEN [r EXCEPT !.value = NO_VALUE, !.applied = <<>>]
         ELSE [r EXCEPT !.value = call_fn(mapping_fn, r.value),
                        !.applied = <<[fn |-> mapping_fn, value |-> r.value]>>]

\* An as() that calls mapping_fn and returns the value the parser returned.
as_unmapped(r, mapping_fn) ==
    IF ~r.returns THEN [r EXCEPT !.applied = <<>>]
    ELSE IF r.next = NO_MATCH \/ r.value = NO_VALUE
         THEN [r EXCEPT !.value = NO_VALUE, !.applied = <<>>]
         ELSE [r EXCEPT !.applied = <<[fn |-> mapping_fn, value |-> r.value]>>]

\* An as() that looks at the value only, if (value === NO_VALUE): it maps the
\* value a failing parser returns.
as_of_failure(r, mapping_fn) ==
    IF ~r.returns THEN [r EXCEPT !.applied = <<>>]
    ELSE IF r.value = NO_VALUE
         THEN [r EXCEPT !.value = NO_VALUE, !.applied = <<>>]
         ELSE [r EXCEPT !.value = call_fn(mapping_fn, r.value),
                        !.applied = <<[fn |-> mapping_fn, value |-> r.value]>>]

\* function as(parser, mapping_fn), applied to what parser(stream) returned.
as(r, mapping_fn) ==
    IF ~r.returns THEN [r EXCEPT !.applied = <<>>]
    ELSE IF r.next = NO_MATCH \/ r.value = NO_VALUE
         THEN [r EXCEPT !.value = NO_VALUE, !.applied = <<>>]
         ELSE [r EXCEPT !.value = call_fn(mapping_fn, r.value),
                        !.applied = <<[fn |-> mapping_fn, value |-> r.value]>>]

\* An at_end without the test of the head: it matches on every stream.
at_end_anywhere(stream, h) ==
    IF IsNoMatch(stream) THEN Throws(h, <<>>)
    ELSE LET hd == head(h, stream)
         IN  Result(stream, NO_VALUE, hd.h, <<>>, TRUE)

\* let at_end: the function wrapped by as_fluent_parser.
at_end(stream, h) ==
    IF IsNoMatch(stream) THEN Throws(h, <<>>)
    ELSE LET hd == head(h, stream)
         IN  IF IsNullish(hd.value)
             THEN Result(stream, NO_VALUE, hd.h, <<>>, TRUE)
             ELSE Result(NO_MATCH, NO_VALUE, hd.h, <<>>, TRUE)

RECURSIVE Run(_, _, _)
RECURSIVE sequence(_, _, _, _, _, _)
RECURSIVE many(_, _, _, _, _)
RECURSIVE choice(_, _, _, _, _)
RECURSIVE sequence_keeps_absent(_, _, _, _, _, _)
RECURSIVE sequence_partial(_, _, _, _, _, _)
RECURSIVE sequence_unchecked(_, _, _, _, _, _)
RECURSIVE choice_last(_, _, _, _, _)
RECURSIVE skip_to(_, _, _, _, _)
RECURSIVE skip_to_consuming(_, _, _, _, _)
RECURSIVE many_guarded(_, _, _, _, _)

\* A sequence() that collects every value, the absent ones too.
sequence_keeps_absent(parsers, i, stream, values, h, log) ==
    IF i > Len(parsers)
    THEN Result(stream, Arr(values), h, log, TRUE)
    ELSE LET r == Run(parsers[i], stream, h)
             seen == Append(log, Entry(parsers[i], stream, r))
         IN  IF ~r.returns THEN Unwinds(r, seen)
             ELSE IF IsNoMatch(r.next)
                  THEN Result(NO_MATCH, NO_VALUE, r.h, seen, TRUE)
                  ELSE sequence_keeps_absent(parsers, i + 1, r.next,
                                             Append(values, r.value),
                                             r.h, seen)

\* A sequence() that leaves its loop at a failing parser (break) and returns
\* what it has got so far.
sequence_partial(parsers, i, stream, values, h, log) ==
    IF i > Len(parsers)
    THEN Result(stream, Arr(values), h, log, TRUE)
    ELSE LET r == Run(parsers[i], stream, h)
             seen == Append(log, Entry(parsers[i], stream, r))
         IN  IF ~r.returns THEN Unwinds(r, seen)
             ELSE IF IsNoMatch(r.next)
                  THEN Result(stream, Arr(values), r.h, seen, TRUE)
                  ELSE sequence_partial(parsers, i + 1, r.next,
                                        IF r.value # NO_VALUE
                                        THEN Append(values, r.value)
                                        ELSE values,
                                        r.h, seen)

\* A sequence() without if (next == NO_MATCH) return: it calls the next
\* parser on what the failing one returned.
sequence_unchecked(parsers, i, stream, values, h, log) ==
    IF i > Len(parsers)
    THEN Result(stream, Arr(values), h, log, TRUE)
    ELSE LET r == Run(parsers[i], stream, h)
             seen == Append(log, Entry(parsers[i], stream, r))
         IN  IF ~r.returns THEN Unwinds(r, seen)
             ELSE sequence_unchecked(parsers, i + 1, r.next,
                                     IF r.value # NO_VALUE
                                     THEN Append(values, r.value) ELSE values,
                                     r.h, seen)

\* function sequence(): the loop over parsers, from the i-th on.
sequence(parsers, i, stream, values, h, log) ==
    IF i > Len(parsers)
    THEN Result(stream, Arr(values), h, log, TRUE)
    ELSE LET r == Run(parsers[i], stream, h)
             seen == Append(log, Entry(parsers[i], stream, r))
         IN  IF ~r.returns THEN Unwinds(r, seen)
             ELSE IF IsNoMatch(r.next)
                  THEN Result(NO_MATCH, NO_VALUE, r.h, seen, TRUE)
                  ELSE sequence(parsers, i + 1, r.next,
                                IF r.value # NO_VALUE
                                THEN Append(values, r.value) ELSE values,
                                r.h, seen)

\* A many() that tries its parser once (if for while).
many_once(p, stream, values, h, log) ==
    LET r == Run(p, stream, h)
        seen == Append(log, Entry(p, stream, r))
    IN  IF ~r.returns THEN Unwinds(r, seen)
        ELSE IF IsNoMatch(r.next)
             THEN Result(stream, Arr(values), r.h, seen, TRUE)
             ELSE Result(r.next,
                         Arr(IF r.value # NO_VALUE
                             THEN Append(values, r.value) ELSE values),
                         r.h, seen, TRUE)

\* A many() with a guard: it leaves its loop when parser matches without
\* moving on (if (next === stream) return [stream, values]).
many_guarded(p, stream, values, h, log) ==
    LET r == Run(p, stream, h)
        seen == Append(log, Entry(p, stream, r))
    IN  IF ~r.returns THEN Unwinds(r, seen)
        ELSE IF IsNoMatch(r.next) \/ r.next = stream
             THEN Result(stream, Arr(values), r.h, seen, TRUE)
             ELSE many_guarded(p, r.next,
                               IF r.value # NO_VALUE
                               THEN Append(values, r.value) ELSE values,
                               r.h, seen)

\* function many(parser): the loop while (true).  When parser returns the
\* stream it was given and leaves the heap as it found it, the next turn of
\* the loop is this turn again: the loop never ends.
many(p, stream, values, h, log) ==
    LET r == Run(p, stream, h)
        seen == Append(log, Entry(p, stream, r))
    IN  IF ~r.returns THEN Unwinds(r, seen)
        ELSE IF IsNoMatch(r.next)
             THEN Result(stream, Arr(values), r.h, seen, TRUE)
             ELSE IF r.next = stream /\ r.h = h
                  THEN Hangs(r.h, seen)
                  ELSE many(p, r.next,
                            IF r.value # NO_VALUE
                            THEN Append(values, r.value) ELSE values,
                            r.h, seen)

\* A choice() that does not return at the first parser that matches: the
\* last one that matches wins.
choice_last(parsers, i, stream, h, log) ==
    IF i > Len(parsers)
    THEN Result(NO_MATCH, NO_VALUE, h, log, TRUE)
    ELSE LET r == Run(parsers[i], stream, h)
             seen == Append(log, Entry(parsers[i], stream, r))
             rest == choice_last(parsers, i + 1, stream, r.h, seen)
         IN  IF ~r.returns THEN Unwinds(r, seen)
             ELSE IF ~rest.returns \/ ~IsNoMatch(rest.next) THEN rest
                  ELSE IF ~IsNoMatch(r.next)
                       THEN Result(r.next, r.value, rest.h, rest.log, TRUE)
                       ELSE rest

\* function choice(): the loop over parsers, from the i-th on.
choice(parsers, i, stream, h, log) ==
    IF i > Len(parsers)
    THEN Result(NO_MATCH, NO_VALUE, h, log, TRUE)
    ELSE LET r == Run(parsers[i], stream, h)
             seen == Append(log, Entry(parsers[i], stream, r))
         IN  IF ~r.returns THEN Unwinds(r, seen)
             ELSE IF ~IsNoMatch(r.next)
                  THEN Result(r.next, r.value, r.h, seen, TRUE)
                  ELSE choice(parsers, i + 1, stream, r.h, seen)

\* An optional() that returns what its parser returned, a failure too.
optional_fails(p, stream, r) ==
    [r EXCEPT !.log = <<Entry(p, stream, r)>>]

\* function optional(parser), given what parser(stream) returned.
optional(p, stream, r) ==
    LET seen == <<Entry(p, stream, r)>>
    IN  IF ~r.returns THEN Unwinds(r, seen)
        ELSE IF IsNoMatch(r.next)
             THEN Result(stream, NO_VALUE, r.h, seen, TRUE)
             ELSE Result(r.next, r.value, r.h, seen, TRUE)

\* A to_be_defined() whose function calls the parser it was made with, none,
\* and not the one bound since.
to_be_defined_unbound(p, stream, r) ==
    LET failed == Result(NO_MATCH, NO_VALUE, r.h, <<>>, TRUE)
    IN  [failed EXCEPT !.log = <<Entry("none", stream, failed)>>]

\* function to_be_defined(): stream => parser(stream), given what the parser
\* now bound returned.
to_be_defined(p, stream, r) ==
    [r EXCEPT !.log = <<Entry(p, stream, r)>>]

\* A skip_to() that returns the stream its parser returned: it consumes what
\* the parser matched.
skip_to_consuming(p, stream, skipped, h, log) ==
    LET r == Run(p, stream, h)
        seen == Append(log, Entry(p, stream, r))
    IN  IF ~r.returns THEN Unwinds(r, seen)
        ELSE IF ~IsNoMatch(r.next)
             THEN Result(r.next,
                         IF Len(skipped) > 0 THEN Arr(skipped) ELSE NO_VALUE,
                         r.h, seen, TRUE)
             ELSE IF IsNoMatch(stream) THEN Throws(r.h, seen)
                  ELSE LET hd == head(r.h, stream)
                           tl == tail(hd.h, stream)
                           pushed == Append(skipped, hd.value)
                       IN  IF IsNoMatch(tl.next)
                           THEN Result(tl.next, Arr(pushed), tl.h, seen, TRUE)
                           ELSE skip_to_consuming(p, tl.next, pushed, tl.h, seen)

\* function skip_to(parser): the function wrapped by as_fluent_parser.  One
\* call of parser on stream and, when it fails, one turn of the while loop:
\* skipped.push(stream.head()), stream = stream.tail(), break at null.
skip_to(p, stream, skipped, h, log) ==
    LET r == Run(p, stream, h)
        seen == Append(log, Entry(p, stream, r))
    IN  IF ~r.returns THEN Unwinds(r, seen)
        ELSE IF ~IsNoMatch(r.next)
             THEN Result(stream,
                         IF Len(skipped) > 0 THEN Arr(skipped) ELSE NO_VALUE,
                         r.h, seen, TRUE)
             ELSE IF IsNoMatch(stream) THEN Throws(r.h, seen)
                  ELSE LET hd == head(r.h, stream)
                           tl == tail(hd.h, stream)
                           pushed == Append(skipped, hd.value)
                       IN  IF IsNoMatch(tl.next)
                           THEN Result(tl.next, Arr(pushed), tl.h, seen, TRUE)
                           ELSE skip_to(p, tl.next, pushed, tl.h, seen)

\* new Stream(from_list(list)): a stream of its own, with its own generator.
NewStream(list) ==
    [generator |-> [kind |-> "list", input |-> list, position |-> 0],
     streams |-> <<Stream(0)>>]

\* The values an enclosed() pushes: value != NO_VALUE, the loose comparison.
Pushed(values) ==
    LET RECURSIVE Kept(_)
        Kept(i) ==
            IF i > Len(values) THEN <<>>
            ELSE IF ~IsNullish(values[i])
                 THEN <<values[i]>> \o Kept(i + 1)
                 ELSE Kept(i + 1)
    IN  Kept(1)

\* An enclosed() that takes what inner matched and does not ask that it is
\* all of the skipped values (the test of stream_after_inner.head() left out).
enclosed_partly(opening, inner, closing, skip_to_closing, stream, h) ==
    LET r1 == Run(opening, stream, h)
        log1 == <<Entry(opening, stream, r1)>>
        r2 == Run(skip_to_closing, r1.next, r1.h)
        log2 == Append(log1, Entry(skip_to_closing, r1.next, r2))
        list == IF r2.value = NO_VALUE THEN <<>> ELSE r2.value.items
        r3 == Run(inner, 1, NewStream(list))
        log3 == Append(log2, Entry(inner, 1, r3))
        r4 == Run(closing, r2.next, r2.h)
        log4 == Append(log3, Entry(closing, r2.next, r4))
    IN  IF IsNoMatch(r1.next)
        THEN Result(NO_MATCH, NO_VALUE, r1.h, log1, r1.returns)
        ELSE IF IsNoMatch(r2.next)
        THEN Result(NO_MATCH, NO_VALUE, r2.h, log2, r2.returns)
        ELSE IF IsNoMatch(r3.next)
        THEN Result(NO_MATCH, NO_VALUE, r2.h, log3, r3.returns)
        ELSE Result(r4.next,
                    Arr(Pushed(<<r1.value, r3.value, r4.value>>)),
                    r4.h, log4, r4.returns)

\* An enclosed() that returns the stream its inner parser returned, a
\* stream of the skipped values, with the values of all three.
enclosed_after_inner(opening, inner, closing, skip_to_closing, stream, h) ==
    LET r1 == Run(opening, stream, h)
        log1 == <<Entry(opening, stream, r1)>>
        r2 == Run(skip_to_closing, r1.next, r1.h)
        log2 == Append(log1, Entry(skip_to_closing, r1.next, r2))
        list == IF r2.value = NO_VALUE THEN <<>> ELSE r2.value.items
        r3 == Run(inner, 1, NewStream(list))
        log3 == Append(log2, Entry(inner, 1, r3))
        r4 == Run(closing, r2.next, r2.h)
        log4 == Append(log3, Entry(closing, r2.next, r4))
    IN  IF ~r1.returns THEN Unwinds(r1, log1)
        ELSE IF IsNoMatch(r1.next)
        THEN Result(NO_MATCH, NO_VALUE, r1.h, log1, TRUE)
        ELSE IF ~r2.returns THEN Unwinds(r2, log2)
        ELSE IF IsNoMatch(r2.next)
        THEN Result(NO_MATCH, NO_VALUE, r2.h, log2, TRUE)
        ELSE IF ~r3.returns THEN Result(NO_MATCH, r3.value, r2.h, log3, FALSE)
        ELSE IF IsNoMatch(r3.next) \/ ~IsNullish(head(r3.h, r3.next).value)
        THEN Result(NO_MATCH, NO_VALUE, r2.h, log3, TRUE)
        ELSE IF ~r4.returns THEN Unwinds(r4, log4)
        ELSE Result(r3.next,
                    Arr(Pushed(<<r1.value, r3.value, r4.value>>)),
                    r4.h, log4, TRUE)

\* An enclosed() that parses in sequence: opening, inner on the stream after
\* it, closing on the stream inner returned.
enclosed_in_sequence(opening, inner, closing, skip_to_closing, stream, h) ==
    sequence(<<opening, inner, closing>>, 1, stream, <<>>, h, <<>>)

\* function enclosed(opening, inner, closing): the function wrapped by
\* as_fluent_parser.  inner runs on a stream made of the skipped values; the
\* stream is dropped when enclosed returns.  In the log the call of inner
\* has stream 1, the first of that stream's chain.
enclosed(opening, inner, closing, skip_to_closing, stream, h) ==
    LET r1 == Run(opening, stream, h)
        log1 == <<Entry(opening, stream, r1)>>
        r2 == Run(skip_to_closing, r1.next, r1.h)
        log2 == Append(log1, Entry(skip_to_closing, r1.next, r2))
        list == IF r2.value = NO_VALUE THEN <<>> ELSE r2.value.items
        r3 == Run(inner, 1, NewStream(list))
        log3 == Append(log2, Entry(inner, 1, r3))
        r4 == Run(closing, r2.next, r2.h)
        log4 == Append(log3, Entry(closing, r2.next, r4))
    IN  IF ~r1.returns THEN Unwinds(r1, log1)
        ELSE IF IsNoMatch(r1.next)
        THEN Result(NO_MATCH, NO_VALUE, r1.h, log1, TRUE)
        ELSE IF ~r2.returns THEN Unwinds(r2, log2)
        ELSE IF IsNoMatch(r2.next)
        THEN Result(NO_MATCH, NO_VALUE, r2.h, log2, TRUE)
        ELSE IF ~r3.returns THEN Result(NO_MATCH, r3.value, r2.h, log3, FALSE)
        ELSE IF IsNoMatch(r3.next) \/ ~IsNullish(head(r3.h, r3.next).value)
        THEN Result(NO_MATCH, NO_VALUE, r2.h, log3, TRUE)
        ELSE IF ~r4.returns THEN Unwinds(r4, log4)
        ELSE Result(r4.next,
                    Arr(Pushed(<<r1.value, r3.value, r4.value>>)),
                    r4.h, log4, TRUE)

\* The function that parser p wraps, called on stream: the parser given to
\* as_fluent_parser, or to as().
Wrapped(p, stream, h) ==
    LET g == Grammar[p]
    IN  CASE g.op = "is" -> match(g.test, stream, h)
          [] g.op = "at_end" -> at_end(stream, h)
          [] g.op = "sequence" -> sequence(g.parsers, 1, stream, <<>>, h, <<>>)
          [] g.op = "many" -> many(g.parsers[1], stream, <<>>, h, <<>>)
          [] g.op = "choice" -> choice(g.parsers, 1, stream, h, <<>>)
          [] g.op = "optional" ->
                optional(g.parsers[1], stream, Run(g.parsers[1], stream, h))
          [] g.op = "to_be_defined" ->
                to_be_defined(parser[p], stream, Run(parser[p], stream, h))
          [] g.op = "skip_to" -> skip_to(g.parsers[1], stream, <<>>, h, <<>>)
          [] g.op = "enclosed" ->
                enclosed(g.parsers[1], g.parsers[2], g.parsers[3],
                         g.parsers[4], stream, h)
          [] g.op = "as" ->
                LET r == Run(g.parsers[1], stream, h)
                IN  [r EXCEPT !.log = <<Entry(g.parsers[1], stream, r)>>]

\* function as_fluent_parser(parser): as(parser, value => value_fn(value)),
\* called on stream.  Every parser of the library is made by it; what as()
\* itself returns is a plain function, as(parser, mapping_fn).
Run(p, stream, h) ==
    IF Grammar[p].op = "as"
    THEN as(Wrapped(p, stream, h), Grammar[p].fn)
    ELSE as(Wrapped(p, stream, h), value_fn[p])

(***************************************************************************)
(* The inputs.                                                             *)
(***************************************************************************)
SeqsUpTo(S, n) == UNION {[1..k -> S] : k \in 0..n}

\* The strings: each character is a token.
Strings == SeqsUpTo({Tok(c) : c \in Chars}, MaxLen)

\* The lists: any value that is not null or undefined is a token.
Elements == {Tok("a"), Obj("o"), Arr(<<>>)}
Lists == SeqsUpTo(Elements, MaxLen)

\* The record of a client call.  For a call of .as(), replaced is the
\* mapping function the parser had before the call and given the one the
\* call was given (observation only).
Call(op, p, s, next, value, log, returns) ==
    [op |-> op, p |-> p, s |-> s, next |-> next, value |-> value,
     log |-> log, returns |-> returns, applied |-> <<>>,
     replaced |-> "", given |-> ""]

\* The parsers as built: each fluent parser with the mapping function it was
\* given where it was built, each to_be_defined() bound to none.
Built ==
    /\ value_fn = [p \in Parsers |-> Grammar[p].fn]
    /\ parser = [p \in ToBeDefined |-> "none"]

\* pvm as it is loaded: var processes = [], and no tick asked for.
NoProcesses ==
    /\ processes = <<>>
    /\ ticks = 0
    /\ created = 0
    /\ stepped = [op |-> "new", found |-> 0, id |-> 0, throws |-> FALSE]

\* dfntly as it is loaded: no Node made, var nodes_to_be_recalculated = [],
\* and no run of the engine asked for.
NoNodes ==
    /\ nodes = <<>>
    /\ nodes_to_be_recalculated = <<>>
    /\ immediates = 0
    /\ ran = [op |-> "new", node |-> "", changed |-> FALSE]

\* prsly as it is loaded: no Stream made, the parsers as built.
NoStreams ==
    /\ generator = [kind |-> "string", input |-> <<>>, position |-> 0]
    /\ streams = <<>>
    /\ Built
    /\ ret = Call("new", "", NullRef, UndefinedRef, undefined, <<>>, TRUE)

\* new Stream(from_string(string)) or new Stream(from_list(list)).
Init ==
    /\ \/ \E string \in Strings :
            generator = [kind |-> "string", input |-> string, position |-> 0]
       \/ \E list \in Lists :
            generator = [kind |-> "list", input |-> list, position |-> 0]
    /\ streams = <<Stream(0)>>
    /\ Built
    /\ ret = Call("new", "", 1, UndefinedRef, undefined, <<>>, TRUE)
    /\ NoProcesses /\ NoNodes

\* new Stream(from_string(string)) only.
InitString ==
    /\ \E string \in Strings :
            generator = [kind |-> "string", input |-> string, position |-> 0]
    /\ streams = <<Stream(0)>>
    /\ Built
    /\ ret = Call("new", "", 1, UndefinedRef, undefined, <<>>, TRUE)
    /\ NoProcesses /\ NoNodes

\* new Stream(from_string(string)), string made of parentheses.
InitParens ==
    /\ \E string \in SeqsUpTo({Tok(c) : c \in ParenChars}, MaxParens) :
            generator = [kind |-> "string", input |-> string, position |-> 0]
    /\ streams = <<Stream(0)>>
    /\ Built
    /\ ret = Call("new", "", 1, UndefinedRef, undefined, <<>>, TRUE)
    /\ NoProcesses /\ NoNodes

\* new Stream(from_string(string)), string made of square brackets.
InitBox ==
    /\ \E string \in SeqsUpTo({Tok(c) : c \in BoxChars}, MaxBox) :
            generator = [kind |-> "string", input |-> string, position |-> 0]
    /\ streams = <<Stream(0)>>
    /\ Built
    /\ ret = Call("new", "", 1, UndefinedRef, undefined, <<>>, TRUE)
    /\ NoProcesses /\ NoNodes

\* The Stream objects the client can hold.
Objects == 1..Len(streams)

\* The client calls s.head().
CallHead(s) ==
    LET r == head(Heap, s)
    IN  /\ ret.returns
        /\ generator' = r.h.generator
        /\ streams' = r.h.streams
        /\ ret' = Call("head", "", s, UndefinedRef, r.value, <<>>, TRUE)
        /\ UNCHANGED <<value_fn, parser>>
        /\ UNCHANGED <<pvm_vars, dfntly_vars>>

\* The client calls s.tail().
CallTail(s) ==
    LET r == tail(Heap, s)
    IN  /\ ret.returns
        /\ generator' = r.h.generator
        /\ streams' = r.h.streams
        /\ ret' = Call("tail", "", s, r.next, undefined, <<>>, TRUE)
        /\ UNCHANGED <<value_fn, parser>>
        /\ UNCHANGED <<pvm_vars, dfntly_vars>>

\* The client calls p(s).  A call that never returns leaves the program in
\* it: nothing is called after it.
CallParser(p, s) ==
    LET r == Run(p, s, Heap)
    IN  /\ ret.returns
        /\ generator' = r.h.generator
        /\ streams' = r.h.streams
        /\ ret' = [Call("parser", p, s, r.next, r.value, r.log, r.returns)
                      EXCEPT !.applied = r.applied]
        /\ UNCHANGED <<value_fn, parser>>
        /\ UNCHANGED <<pvm_vars, dfntly_vars>>

\* The client calls p.define(actual_parser) on a parser made by
\* to_be_defined(): parser = actual_parser; return fluent.
CallDefine(p, actual_parser) ==
    /\ ret.returns
    /\ parser' = [parser EXCEPT ![p] = actual_parser]
    /\ ret' = Call("define", p, NullRef, UndefinedRef, ParserRef(p), <<>>, TRUE)
    /\ UNCHANGED <<generator, streams, value_fn>>
    /\ UNCHANGED <<pvm_vars, dfntly_vars>>

\* What a mapping function g makes of the values of a mapping function f:
\* as(as(parser, f), g) as one function.  (identity, a constant and
\* ignored_value only: a constant returns its value whatever it is given,
\* and as() does not call g when f returns undefined.)
composed(f, g) ==
    IF g = "identity" \/ f = "ignored_value" THEN f ELSE g

\* A .as() that wraps the parser once more: the new mapping function is
\* given the values of the one before, fluent_parser = as(fluent_parser,
\* user_value_fn).
CallAs_nesting(p, user_value_fn) ==
    /\ ret.returns
    /\ value_fn' = [value_fn EXCEPT ![p] = composed(@, user_value_fn)]
    /\ ret' = [Call("as", p, NullRef, UndefinedRef, ParserRef(p), <<>>, TRUE)
                  EXCEPT !.replaced = value_fn[p], !.given = user_value_fn]
    /\ UNCHANGED <<generator, streams, parser>>
    /\ UNCHANGED <<pvm_vars, dfntly_vars>>

\* The client calls p.as(user_value_fn) on a fluent parser: value_fn =
\* user_value_fn; return fluent_parser.
CallAs(p, user_value_fn) ==
    /\ ret.returns
    /\ value_fn' = [value_fn EXCEPT ![p] = user_value_fn]
    /\ ret' = [Call("as", p, NullRef, UndefinedRef, ParserRef(p), <<>>, TRUE)
                  EXCEPT !.replaced = value_fn[p], !.given = user_value_fn]
    /\ UNCHANGED <<generator, streams, parser>>
    /\ UNCHANGED <<pvm_vars, dfntly_vars>>

\* The parsers the client of SpecStream calls.
CalledOnStreams == {"any", "many_a", "at_end"}

NextStream ==
    \/ \E s \in Objects : CallHead(s)
    \/ \E s \in Objects : CallTail(s)
    \/ \E p \in CalledOnStreams, s \in Objects : CallParser(p, s)

\* The client of a stream made from a string or a list: any calls of head()
\* and tail() and of some parsers, in any order, on the streams it has got
\* hold of.
SpecStream == Init /\ [][NextStream]_vars

\* The parsers the client of SpecParse calls.
Called ==
    {"any", "a", "at_end",
     "seq_empty", "seq_A_any", "seq_null_ign_b", "seq_opt_b_end",
     "many_a", "many_any", "many_ign_or_b", "many_at_end",
     "ch_empty", "ch_A_B", "ch_ign_b", "ch_seq_none_many",
     "opt_a", "opt_seq", "opt_ign"}

NextParse ==
    \E p \in Called, s \in Objects : CallParser(p, s)

\* The client of the parsers: any calls of the parsers it has built, in any
\* order, on the streams of a string it has got hold of.
SpecParse == InitString /\ [][NextParse]_vars

\* The parsers the client of SpecDefine gives to define(), the mapping
\* functions it gives to as(), and the parsers it calls: the one made by
\* to_be_defined() and two that were made from it.
Definitions == {"a", "seq_A_any", "nested"}
Mappings == {"identity", "first_value", "boxed"}
CalledLater == {"later", "many_later", "nested"}
DefinedLater == {"later"}

NextDefine ==
    \/ \E p \in DefinedLater, actual_parser \in Definitions :
            CallDefine(p, actual_parser)
    \/ \E p \in DefinedLater, user_value_fn \in Mappings :
            CallAs(p, user_value_fn)
    \/ \E p \in CalledLater, s \in Objects : CallParser(p, s)

\* The client of to_be_defined(): it defines the parser, defines it again,
\* gives it a mapping function (parlance.js does both: placeholder.define(
\* ...).as(...)) and calls it and the parsers made from it, in any order.
SpecDefine == InitString /\ [][NextDefine]_vars

\* The parsers the client of SpecParens calls.
CalledParens == {"parens", "close"}

NextParens ==
    \/ CallDefine("parens", "parens_body")
    \/ \E p \in CalledParens, s \in Objects : CallParser(p, s)

\* The test of nested parentheses: parens is made by to_be_defined(),
\* defined as sequence(open, many(parens), close), and called on the streams
\* of a string of parentheses (before it is defined, too).
SpecParens == InitParens /\ [][NextParens]_vars

\* The parsers the client of SpecSkip calls.
CalledSkip ==
    {"skip_to_a", "seq_skip_a", "skip_to_end", "skip_to_none", "skip_to_opt",
     "skip_to_A_any", "enc_any", "enc_a", "enc_empty", "enc_end",
     "ch_seq_none_many"}

NextSkip ==
    \E p \in CalledSkip, s \in Objects : CallParser(p, s)

\* The client of skip_to() and enclosed(): any calls of the parsers made
\* with them, in any order, on the streams of a string.
SpecSkip == InitString /\ [][NextSkip]_vars

\* The parsers the client of SpecBox calls.
CalledBox == {"box", "box_close"}

NextBox ==
    \E p \in CalledBox, s \in Objects : CallParser(p, s)

\* The test of enclosed(): box = enclosed(open, many(any), close) with the
\* markers "[[" and "]]", called on the streams of a string of brackets.
SpecBox == InitBox /\ [][NextBox]_vars

\* The parsers the client of SpecAs calls: the ones made by as().
CalledAs == {p \in Parsers : Grammar[p].op = "as"}

NextAs ==
    \E p \in CalledAs, s \in Objects : CallParser(p, s)

\* The client of as(parser, mapping_fn): any calls of the parsers made with
\* it, in any order, on the streams of a string.
SpecAs == InitString /\ [][NextAs]_vars

\* The parsers the client of SpecFluent calls .as() on, the mapping
\* functions it gives, and the parsers it calls: those, and parsers that
\* were made from them when the grammar was built.
Remapped == {"a", "any"}
Remappings == {"identity", "constant_A", "ignored_value"}
CalledFluent == {"a", "any", "many_a", "many_any"}

NextFluent ==
    \/ \E p \in Remapped, user_value_fn \in Remappings :
            CallAs(p, user_value_fn)
    \/ \E p \in CalledFluent, s \in Objects : CallParser(p, s)

\* The client of the fluent parsers: it calls .as() on parsers it has
\* already made other parsers from (as parlance.js does with raw_text and
\* message), and calls the parsers, in any order.
SpecFluent == InitString /\ [][NextFluent]_vars

\* The tokens of the lists given to the literals, and the parsers the client
\* of SpecLiteral calls.
LiteralTokens == {Tok("a"), Tok("1"), Num("1")}
CalledLiteral == {"a", "one", "number_one", "any"}

\* new Stream(from_list(list)), list made of characters and numbers.
InitLiteral ==
    /\ \E list \in SeqsUpTo(LiteralTokens, MaxLen) :
            generator = [kind |-> "list", input |-> list, position |-> 0]
    /\ streams = <<Stream(0)>>
    /\ Built
    /\ ret = Call("new", "", 1, UndefinedRef, undefined, <<>>, TRUE)
    /\ NoProcesses /\ NoNodes

NextLiteral ==
    \E p \in CalledLiteral, s \in Objects : CallParser(p, s)

\* The client of literal(): any calls of literals of a character and of a
\* number, in any order, on the streams of a list of characters and numbers
\* (the list of the test of from_list holds both: [1, 'two', {a: 3}]).
SpecLiteral == InitLiteral /\ [][NextLiteral]_vars

\* The parsers the client of SpecRebind calls .as() on, again and again,
\* the mapping functions it gives, and the parsers it calls; .as() is never
\* called on any.
Rebound == {"a", "many_a"}
Rebindings == {"identity", "constant_A", "ignored_value"}
CalledRebound == {"a", "many_a", "any"}

NextRebind ==
    \/ \E p \in Rebound, user_value_fn \in Rebindings :
            CallAs(p, user_value_fn)
    \/ \E p \in CalledRebound, s \in Objects : CallParser(p, s)

\* The client that calls .as() more than once on one parser, a literal or
\* a parser made by a combinator, and calls the parsers, in any order.
SpecRebind == InitString /\ [][NextRebind]_vars

\* The parsers the client of SpecMany calls: many() of parsers that move
\* on whenever they match, and of parsers that can match without moving.
CalledMany ==
    {"many_a", "many_any", "many_ign_or_b", "many_at_end", "many_opt",
     "many_many", "any"}

NextMany ==
    \E p \in CalledMany, s \in Objects : CallParser(p, s)

\* The client of many(): any calls of the parsers made with it, in any
\* order, on the streams of a string, until one of the calls does not
\* return.
SpecMany == InitString /\ [][NextMany]_vars

\* The parsers the client of SpecExported calls, one or more made by each
\* function the library exports; the parser it defines later as, and the
\* parsers it gives a mapping function.
CalledExported ==
    {"any", "none", "a", "at_end", "seq_A_any", "many_a", "ch_ign_b", "opt_a",
     "later", "skip_to_a", "enc_any"}
MappedExported == {"skip_to_a"}

NextExported ==
    \/ CallDefine("later", "seq_A_any")
    \/ \E p \in MappedExported : CallAs(p, "constant_A")
    \/ \E p \in CalledExported, s \in Objects : CallParser(p, s)

\* The client of the whole library: parsers made by is, literal, sequence,
\* many, choice, optional, to_be_defined, skip_to and enclosed, and any, none
\* and at_end, called in any order on the streams of a string.
SpecExported == InitString /\ [][NextExported]_vars

\* The parsers the client of SpecAtEnd calls.
CalledAtEnd == {"at_end", "final_a", "final_many", "final_opt", "a", "any"}

NextAtEnd ==
    \E p \in CalledAtEnd, s \in Objects : CallParser(p, s)

\* The client of at_end: any calls of at_end and of sequences that end in
\* it, in any order, on the streams of a string or a list.
SpecAtEnd == Init /\ [][NextAtEnd]_vars

(***************************************************************************)
(* pvm, the process virtual machine (src/pvm/pvm.js).                      *)
(*                                                                         *)
(* A client defines the tasks of a ProcessDefinition and activates it; the *)
(* engine steps the active processes, one process per tick.  The calls of  *)
(* tick that process.nextTick was asked for run one at a time, each to its *)
(* end, and so does every call of the client.                              *)
(***************************************************************************)

\* The most Process objects the client activates.
MaxProcesses == 3

\* this.task = null, and the task of a name the definition does not hold.
NoTask == "null"

\* The process definition of the client:
\*   d.task('start').transition('end')
\*   d.task('end')
\*   d.task('fork', function () { d.activate('end') })
\*   d.task('fork_on', function () { d.activate('end') })
\*       .transition(function () {}).transition('end')
\* fn is the behaviour of the task, transitions what its transition
\* functions return, in order.
Tasks ==
    [start   |-> [fn |-> "NOP", transitions |-> <<"end">>],
     end     |-> [fn |-> "NOP", transitions |-> <<>>],
     fork    |-> [fn |-> "activate_end", transitions |-> <<>>],
     fork_on |-> [fn |-> "activate_end", transitions |-> <<"undefined", "end">>]]

TaskIds == DOMAIN Tasks

\* new Process(process_definition, task): the process of number id.
Process(id, task) ==
    [id |-> id, task |-> IF task \in TaskIds THEN task ELSE NoTask]

\* ProcessDefinition.prototype.activate, on the engine e.
activate(e, initial_task) ==
    LET scheduled == IF Len(e.processes) = 0 THEN e.ticks + 1 ELSE e.ticks
    IN  [processes |-> Append(e.processes,
                              Process(e.created + 1, initial_task)),
         ticks     |-> scheduled,
         created   |-> e.created + 1]

\* Task.prototype.execute: the behaviour of the task, which may use the
\* engine.
execute(e, task) ==
    IF Tasks[task].fn = "activate_end" THEN activate(e, "end") ELSE e

\* The name the first transition function that returns one returns, from
\* the i-th on.
RECURSIVE transition(_, _)
transition(transitions, i) ==
    IF i > Len(transitions) THEN NoTask
    ELSE IF transitions[i] # "undefined" THEN transitions[i]
    ELSE transition(transitions, i + 1)

\* Process.prototype.step: the engine and the process after the step.
step(e, p) ==
    [e |-> execute(e, p.task),
     p |-> [p EXCEPT !.task = transition(Tasks[p.task].transitions, 1)]]

\* Process.prototype.is_done
is_done(p) == p.task = NoTask

\* tick, on an engine e with a process in its queue.
tick(e) ==
    LET p == Head(e.processes)
        s == step([e EXCEPT !.processes = Tail(@)], p)
        pushed == IF ~is_done(s.p)
                  THEN [s.e EXCEPT !.processes = Append(@, s.p)]
                  ELSE s.e
        \* !processes.length == 0 is (!processes.length) == 0
        negated == (Len(pushed.processes) = 0)
    IN  IF negated = FALSE THEN [pushed EXCEPT !.ticks = @ + 1] ELSE pushed

\* The engine, as a record.
engine == [processes |-> processes, ticks |-> ticks, created |-> created]

\* The client calls process_definition.activate(initial_task).
Activate(initial_task) ==
    /\ ~stepped.throws
    /\ created < MaxProcesses
    /\ LET e == activate(engine, initial_task)
       IN  /\ processes' = e.processes
           /\ ticks' = e.ticks
           /\ created' = e.created
    /\ stepped' = [op |-> "activate", found |-> Len(processes),
                   id |-> created + 1, throws |-> FALSE]
    /\ UNCHANGED <<prsly_vars, dfntly_vars>>

\* A call of tick that process.nextTick was asked for runs.  On an empty
\* queue processes.shift() is undefined and p.step() throws a TypeError,
\* which ends the program.
Tick ==
    /\ ~stepped.throws
    /\ ticks > 0
    /\ IF Len(processes) = 0
       THEN /\ ticks' = ticks - 1
            /\ stepped' = [op |-> "tick", found |-> 0, id |-> 0,
                           throws |-> TRUE]
            /\ UNCHANGED <<processes, created>>
       ELSE LET e == tick([engine EXCEPT !.ticks = @ - 1])
            IN  /\ processes' = e.processes
                /\ ticks' = e.ticks
                /\ created' = e.created
                /\ stepped' = [op |-> "tick", found |-> Len(processes),
                               id |-> Head(processes).id, throws |-> FALSE]
    /\ UNCHANGED <<prsly_vars, dfntly_vars>>

InitPvm == NoStreams /\ NoProcesses /\ NoNodes

NextPvm ==
    \/ \E initial_task \in TaskIds : Activate(initial_task)
    \/ Tick

SpecPvm == InitPvm /\ [][NextPvm]_vars

(***************************************************************************)
(* dfntly, the dataflow engine (src/dfntly/dfntly.js).                     *)
(*                                                                         *)
(* A client makes nodes, of a value or of a function of other nodes, and   *)
(* sets values; the engine recalculates the nodes downstream of a changed  *)
(* value, one node per run.  The runs of run_engine that setImmediate was  *)
(* asked for run one at a time, each to its end, and so does every call of *)
(* the client.                                                             *)
(***************************************************************************)

\* The most runs of the engine that are pending when the client sets a
\* value.
MaxImmediates == 2

\* var active_node = null
NoNode == "null"

\* The program of the client, in the order it makes its nodes:
\*   var name = make_node(v), other = make_node(w)
\*   var greeting = make_node(function () { return name() })
\*   var both = make_node(function () {
\*                  return name() == 1 && other() == 1 ? 1 : 0 })
\*   var print_it = make_node(function () { console.log(greeting()) })
\*   var shown = make_node(function () { greeting(); return both() })
Program == <<"name", "other", "greeting", "both", "print_it", "shown">>

NodeIds == {Program[i] : i \in DOMAIN Program}

\* The nodes of a function.
Functions == {"greeting", "both", "print_it", "shown"}

\* The values the client gives its nodes: 0, 1 and '1'.
Values == {Num("0"), Num("1"), Tok("1")}

\* this.fn() of the node n: the nodes it reads with get_value, in order,
\* and the value it returns.
fn(n, d) ==
    CASE n = "greeting" ->
            [reads |-> <<"name">>, value |-> d.nodes["name"].value]
      [] n = "both" ->
            IF loosely_equal(d.nodes["name"].value, Num("1"))
            THEN [reads |-> <<"name", "other">>,
                  value |-> IF loosely_equal(d.nodes["other"].value, Num("1"))
                            THEN Num("1") ELSE Num("0")]
            ELSE [reads |-> <<"name">>, value |-> Num("0")]
      [] n = "print_it" ->
            [reads |-> <<"greeting">>, value |-> undefined]
      [] OTHER ->
            [reads |-> <<"greeting", "both">>, value |-> d.nodes["both"].value]

\* Node.prototype.get_value of the node n while active_node is being
\* recalculated: the link it adds.  A downstream_nodes that is undefined is
\* the empty list here; schedule_for_recalculation returns at once on both.
get_value(d, n, active_node) ==
    IF /\ active_node # NoNode
       /\ \A i \in DOMAIN d.nodes[n].downstream_nodes :
              d.nodes[n].downstream_nodes[i] # active_node
    THEN [d EXCEPT !.nodes[n].downstream_nodes = Append(@, active_node)]
    ELSE d

\* The calls of get_value that this.fn() makes, from the i-th on.
RECURSIVE reading(_, _, _, _)
reading(d, reads, i, active_node) ==
    IF i > Len(reads) THEN d
    ELSE reading(get_value(d, reads[i], active_node), reads, i + 1,
                 active_node)

\* The nodes of the list that are not in the queue yet are pushed, from the
\* i-th on.
RECURSIVE pushing(_, _, _)
pushing(queue, ns, i) ==
    IF i > Len(ns) THEN queue
    ELSE IF \E j \in DOMAIN queue : queue[j] = ns[i]
         THEN pushing(queue, ns, i + 1)
         ELSE pushing(Append(queue, ns[i]), ns, i + 1)

\* schedule_for_recalculation(nodes)
schedule_for_recalculation(d, ns) ==
    IF Len(ns) = 0 THEN d
    ELSE [d EXCEPT !.immediates =
                       IF Len(d.nodes_to_be_recalculated) = 0
                       THEN @ + 1 ELSE @,
                   !.nodes_to_be_recalculated = pushing(@, ns, 1)]

\* Node.prototype.recalculate, the last of its three definitions, which
\* calls the two before it: the engine after it, and value_changed.  The
\* call of this.fn() and the links it adds are each worked out once.
recalculate(d, n) ==
    CHOOSE result \in
        { [d |-> IF ~loosely_equal(called.value, linked.nodes[n].value)
                 THEN schedule_for_recalculation(
                          [linked EXCEPT !.nodes[n].value = called.value],
                          linked.nodes[n].downstream_nodes)
                 ELSE linked,
           value_changed |->
               ~loosely_equal(called.value, linked.nodes[n].value)] :
          called \in {fn(n, d)},
          linked \in {reading(d, fn(n, d).reads, 1, n)} } : TRUE

\* Node.prototype.set_value
set_value(d, n, new_value) ==
    IF loosely_equal(new_value, d.nodes[n].value) THEN d
    ELSE LET valued == [d EXCEPT !.nodes[n].value = new_value]
         IN  schedule_for_recalculation(valued,
                                        valued.nodes[n].downstream_nodes)

\* run_engine that does not ask for a next run.
run_engine_once(d) ==
    IF Len(d.nodes_to_be_recalculated) = 0 THEN d
    ELSE recalculate([d EXCEPT !.nodes_to_be_recalculated = Tail(@)],
                     Head(d.nodes_to_be_recalculated)).d

\* run_engine
run_engine(d) ==
    IF Len(d.nodes_to_be_recalculated) = 0 THEN d
    ELSE LET node == Head(d.nodes_to_be_recalculated)
             r == recalculate([d EXCEPT !.nodes_to_be_recalculated = Tail(@)],
                              node).d
         IN  IF Len(r.nodes_to_be_recalculated) > 0
             THEN [r EXCEPT !.immediates = @ + 1]
             ELSE r

\* new Node(value_or_fn): the node n of a value, or of its function.
Node(d, n, value_or_fn) ==
    IF n \in Functions
    THEN recalculate(
             [d EXCEPT !.nodes =
                  @ @@ (n :> [value |-> null, downstream_nodes |-> <<>>])],
             n).d
    ELSE [d EXCEPT !.nodes =
              @ @@ (n :> [value |-> value_or_fn, downstream_nodes |-> <<>>])]

\* The engine after the client has made the first i nodes of its program.
RECURSIVE make_node(_, _, _)
make_node(i, name_value, other_value) ==
    IF i = 0
    THEN [nodes |-> <<>>, nodes_to_be_recalculated |-> <<>>, immediates |-> 0]
    ELSE Node(make_node(i - 1, name_value, other_value), Program[i],
              IF Program[i] = "name" THEN name_value ELSE other_value)

\* The dataflow engine, as a record.
dataflow ==
    [nodes |-> nodes, nodes_to_be_recalculated |-> nodes_to_be_recalculated,
     immediates |-> immediates]

\* The client calls n(new_value).
SetValue(n, new_value) ==
    /\ immediates < MaxImmediates
    /\ \E d \in {set_value(dataflow, n, new_value)} :
           /\ nodes' = d.nodes
           /\ nodes_to_be_recalculated' = d.nodes_to_be_recalculated
           /\ immediates' = d.immediates
    /\ ran' = [op |-> "set_value", node |-> n,
               changed |-> ~loosely_equal(new_value, nodes[n].value)]
    /\ UNCHANGED <<prsly_vars, pvm_vars>>

\* A run of run_engine that setImmediate was asked for.
RunEngine ==
    /\ immediates > 0
    /\ \E d \in {run_engine([dataflow EXCEPT !.immediates = @ - 1])} :
           /\ nodes' = d.nodes
           /\ nodes_to_be_recalculated' = d.nodes_to_be_recalculated
           /\ immediates' = d.immediates
           /\ ran' = IF Len(nodes_to_be_recalculated) = 0
                     THEN [op |-> "run_engine", node |-> "",
                           changed |-> FALSE]
                     ELSE LET node == Head(nodes_to_be_recalculated)
                          IN  [op |-> "run_engine", node |-> node,
                               changed |->
                                   d.nodes[node].value # nodes[node].value]
    /\ UNCHANGED <<prsly_vars, pvm_vars>>

\* The nodes the client sets: its two nodes of a value.
Settable == {"name", "other"}

InitDfntly ==
    /\ NoStreams
    /\ NoProcesses
    /\ \E name_value \in {Num("0"), Num("1")},
          other_value \in {Num("0"), Num("1")} :
          LET d == make_node(Len(Program), name_value, other_value)
          IN  /\ nodes = d.nodes
              /\ nodes_to_be_recalculated = d.nodes_to_be_recalculated
              /\ immediates = d.immediates
    /\ ran = [op |-> "new", node |-> "", changed |-> FALSE]

NextDfntly ==
    \/ \E n \in Settable, new_value \in Values : SetValue(n, new_value)
    \/ RunEngine

\* The event loop runs every run of the engine that was asked for.
SpecDfntly == InitDfntly /\ [][NextDfntly]_vars /\ WF_vars(RunEngine)

(***************************************************************************)
(* The properties of the Stream.                                           *)
(***************************************************************************)

\* C1: once a Stream's head or tail has been computed it never changes:
\* whatever calls of head(), tail() and parsers were made since, head() on
\* the stream returns the token, and tail() the continuation, that the first
\* call on it returned.
C1_HeadAndTailNeverChange ==
    /\ \A s \in Objects :
          /\ streams[s].pulls > 0 =>
                head(Heap, s).value = streams[s].first_head
          /\ streams[s].first_tail # UndefinedRef =>
                tail(Heap, s).next = streams[s].first_tail
    /\ ret.op = "head" => ret.value = streams[ret.s].first_head
    /\ ret.op = "tail" => ret.next = streams[ret.s].first_tail

\* The first stream's head is read again after the streams two steps further
\* on were made and read, and its token is still the first one.
C1_Witness ==
    /\ ret.op = "head" /\ ret.s = 1 /\ ret.value = Tok("a")
    /\ Len(streams) >= 3 /\ streams[3].pulls > 0
    /\ streams[2].first_head = Tok("b")

\* C2: the generator is called at most once for each position of the chain
\* of streams, however often and in whatever order head(), tail() and the
\* parsers were called.
C2_OnePullPerPosition ==
    \A s \in Objects :
        /\ streams[s].pulls <= 1
        /\ \A t \in Objects \ {s} :
              streams[t].depth = streams[s].depth =>
                  streams[s].pulls + streams[t].pulls <= 1

\* A parser is called on the first stream once more after the chain has been
\* read to its third stream: the first position was still pulled once.
C2_Witness ==
    /\ ret.op = "parser" /\ ret.s = 1
    /\ Len(streams) >= 3 /\ streams[3].pulls = 1
    /\ streams[1].pulls = 1

\* The k-th token (from 0) of the input, null from its length on.
Token(k) ==
    IF k < Len(generator.input) THEN generator.input[k + 1] ELSE null

\* C3: the stream reached after k tail() steps has the k-th token of the
\* string or list as its head, and null at k = the length; no stream lies
\* further; in whatever order the heads and tails were first asked for.
C3_HeadIsKthToken ==
    /\ \A s \in Objects :
          /\ streams[s].depth <= Len(generator.input)
          /\ head(Heap, s).value = Token(streams[s].depth)
    /\ ret.op = "head" => ret.value = Token(streams[ret.s].depth)
    /\ ret.op = "tail" =>
          (ret.next = NullRef) = (streams[ret.s].depth = Len(generator.input))

\* On a list of three elements the whole chain was walked to the end, and
\* the second stream is then read again: it is the second element.
C3_Witness ==
    /\ generator.kind = "list" /\ Len(generator.input) = 3
    /\ Len(streams) = 4 /\ streams[4].lazy_head = null
    /\ ret.op = "head" /\ streams[ret.s].depth = 1
    /\ ret.value = generator.input[2] /\ ret.value = Obj("o")

(***************************************************************************)
(* The properties of the parsers.  What a parser returns on a stream is    *)
(* read off a call of it in the state reached: Returned(p, s).             *)
(***************************************************************************)
Returned(p, s) == Run(p, s, Heap)

Matched(r) == r.returns /\ ~IsNoMatch(r.next)
Failed(r) == r.returns /\ IsNoMatch(r.next)

\* The values of the results rs that are not the absent value, in order.
Present(rs) ==
    LET RECURSIVE Kept(_)
        Kept(i) ==
            IF i > Len(rs) THEN <<>>
            ELSE IF rs[i].value # NO_VALUE
                 THEN <<rs[i].value>> \o Kept(i + 1)
                 ELSE Kept(i + 1)
    IN  Kept(1)

\* What the parsers ps return when called in turn from stream s, each on the
\* stream its predecessor returned, up to the first that does not match.
RECURSIVE InTurn(_, _)
InTurn(ps, s) ==
    IF ps = <<>> THEN <<>>
    ELSE LET r == Returned(Head(ps), s)
         IN  IF Matched(r) THEN <<r>> \o InTurn(Tail(ps), r.next) ELSE <<r>>

\* What parser p returns when called again and again from stream s, each
\* time on the stream it returned before, up to the first call that does not
\* match or does not move.
RECURSIVE Repeated(_, _)
Repeated(p, s) ==
    LET r == Returned(p, s)
    IN  IF Matched(r) /\ r.next # s THEN <<r>> \o Repeated(p, r.next) ELSE <<r>>

\* The heap of a stream on which nothing but k tail() steps were made.
RECURSIVE Walked(_, _)
Walked(h, k) ==
    IF k = 0 THEN h ELSE Walked(tail(h, Len(h.streams)).h, k - 1)

Untouched(k) ==
    Walked([generator |-> [generator EXCEPT !.position = 0],
            streams |-> <<Stream(0)>>], k)

\* C4: what a parser returns on a stream does not depend on the calls of
\* parsers made before on that stream or the streams after it: it is what
\* the parser returns on the stream at the same position of an input that
\* nothing has read yet (the stream, the value, the calls of the parsers it
\* is made of, and whether it returns at all).
C4_ReplayIsTheSame ==
    ret.op = "parser" =>
        LET k == streams[ret.s].depth
            r == Run(ret.p, k + 1, Untouched(k))
        IN  /\ ret.s = k + 1
            /\ r.returns = ret.returns
            /\ ret.returns =>
                  /\ r.next = ret.next
                  /\ r.value = ret.value
                  /\ r.log = ret.log

\* literal('a') is called on the first stream of "ab..." after other calls
\* have read the input to its end, and matches its first token.
C4_Witness ==
    /\ ret.op = "parser" /\ ret.p = "a" /\ ret.s = 1
    /\ ret.next = 2 /\ ret.value = Tok("a")
    /\ Len(generator.input) = 3 /\ generator.input[2] = Tok("b")
    /\ Len(streams) = 4 /\ streams[4].lazy_head = null

\* The first of the parsers ps that matches on stream s, 0 when none does.
FirstMatch(ps, s) ==
    LET ok == {i \in 1..Len(ps) : Matched(Returned(ps[i], s))}
    IN  IF ok = {} THEN 0 ELSE CHOOSE i \in ok : \A j \in ok : i <= j

\* C5: choice(p1, ..., pn)(s) calls the alternatives in the order given,
\* each on s, up to the first that matches, and returns the stream and the
\* value that one returned; the later ones are not called.  It fails, with
\* no value, iff every alternative fails on s.
C5_ChoiceTakesFirstMatch ==
    (ret.op = "parser" /\ Grammar[ret.p].op = "choice" /\ ret.returns) =>
        LET ps == Grammar[ret.p].parsers
            k == FirstMatch(ps, ret.s)
        IN  /\ (ret.next = NO_MATCH) = (k = 0)
            /\ k = 0 => ret.value = NO_VALUE /\ Len(ret.log) = Len(ps)
            /\ k > 0 =>
                  /\ ret.next = Returned(ps[k], ret.s).next
                  /\ ret.value = Returned(ps[k], ret.s).value
                  /\ Len(ret.log) = k
            /\ \A i \in 1..Len(ret.log) :
                  /\ ret.log[i].p = ps[i]
                  /\ ret.log[i].s = ret.s
                  /\ ret.log[i].next = Returned(ps[i], ret.s).next
                  /\ ret.log[i].value = Returned(ps[i], ret.s).value

\* choice(literal('a').as(a => 'A'), literal('a').as(a => 'B')) on an 'a':
\* both match, the value is 'A' and the second was not called.
C5_Witness ==
    /\ ret.op = "parser" /\ ret.p = "ch_A_B"
    /\ ret.next # NO_MATCH /\ ret.value = Tok("A")
    /\ Len(ret.log) = 1
    /\ Matched(Returned("a_as_B", ret.s))
    /\ Returned("a_as_B", ret.s).value = Tok("B")

\* C6: when every parser of sequence(p1, ..., pn) matches in turn, each on
\* the stream its predecessor returned, the sequence returns the stream pn
\* returned and the list of the values returned, in order, without those
\* that are the absent value (and with every other one, null too).
C6_SequenceCollectsValues ==
    (ret.op = "parser" /\ Grammar[ret.p].op = "sequence") =>
        LET ps == Grammar[ret.p].parsers
            rs == InTurn(ps, ret.s)
        IN  (Len(rs) = Len(ps) /\ \A i \in 1..Len(rs) : Matched(rs[i])) =>
                /\ ret.returns
                /\ ret.next = IF ps = <<>> THEN ret.s ELSE rs[Len(rs)].next
                /\ ret.value = Arr(Present(rs))
                /\ Len(ret.log) = Len(ps)
                /\ \A i \in 1..Len(ps) :
                      /\ ret.log[i].p = ps[i]
                      /\ ret.log[i].s = IF i = 1 THEN ret.s ELSE rs[i - 1].next

\* sequence(literal('a').as(a => null), literal('a').as(ignored_value),
\* literal('b')) on "aab": the value is [null, 'b'], the ignored 'a' left out.
C6_Witness ==
    /\ ret.op = "parser" /\ ret.p = "seq_null_ign_b" /\ ret.s = 1
    /\ ret.next = 4
    /\ ret.value = Arr(<<null, Tok("b")>>)
    /\ ret.log[2].value = NO_VALUE /\ ret.log[2].next = 3

\* C7: sequence(p1, ..., pn)(s) fails as soon as one of its parsers fails
\* on the stream reached so far: it returns NO_MATCH with no value, and the
\* parsers after the failing one are not called.
C7_SequenceFailsAtFirstFailure ==
    (ret.op = "parser" /\ Grammar[ret.p].op = "sequence") =>
        LET ps == Grammar[ret.p].parsers
            rs == InTurn(ps, ret.s)
        IN  (rs # <<>> /\ Failed(rs[Len(rs)])) =>
                /\ ret.returns
                /\ ret.next = NO_MATCH
                /\ ret.value = NO_VALUE
                /\ Len(ret.log) = Len(rs)
                /\ \A i \in 1..Len(rs) :
                      /\ ret.log[i].p = ps[i]
                      /\ ret.log[i].next = rs[i].next

\* sequence(optional(literal('a')), literal('b'), at_end) on "abb": the first
\* two match, at_end fails at the third token, and the sequence fails.
C7_Witness ==
    /\ ret.op = "parser" /\ ret.p = "seq_opt_b_end" /\ ret.s = 1
    /\ ret.next = NO_MATCH /\ ret.value = NO_VALUE
    /\ Len(ret.log) = 3
    /\ ret.log[1].next = 2 /\ ret.log[2].next = 3
    /\ ret.log[3].next = NO_MATCH

\* C8: many(p)(s) never fails.  When it returns, it returns the stream
\* reached by calling p again and again from s, the one on which p fails,
\* and the list of the values p returned that are not the absent value.
C8_ManyStopsWherePFails ==
    (ret.op = "parser" /\ Grammar[ret.p].op = "many" /\ ret.returns) =>
        LET p == Grammar[ret.p].parsers[1]
            rs == Repeated(p, ret.s)
            n == Len(rs)
            matches == SubSeq(rs, 1, n - 1)
        IN  /\ ret.next # NO_MATCH
            /\ Failed(rs[n])
            /\ ret.next = IF n = 1 THEN ret.s ELSE rs[n - 1].next
            /\ Failed(Returned(p, ret.next))
            /\ ret.value = Arr(Present(matches))
            /\ Len(ret.log) = n
            /\ \A i \in 1..n :
                  ret.log[i].s = IF i = 1 THEN ret.s ELSE rs[i - 1].next

\* many(literal('a')) on "aaa" from its first stream: three values, and the
\* stream returned is the end of the input.
C8_Witness ==
    /\ ret.op = "parser" /\ ret.p = "many_a" /\ ret.s = 1
    /\ ret.value = Arr(<<Tok("a"), Tok("a"), Tok("a")>>)
    /\ ret.next = 4 /\ streams[4].lazy_head = null

\* C9: optional(p) never fails.  When p fails on s it returns s itself with
\* the absent value, and when p matches it returns what p returned.
C9_OptionalNeverFails ==
    (ret.op = "parser" /\ Grammar[ret.p].op = "optional" /\ ret.returns) =>
        LET r == Returned(Grammar[ret.p].parsers[1], ret.s)
        IN  /\ ret.next # NO_MATCH
            /\ Failed(r) => ret.next = ret.s /\ ret.value = NO_VALUE
            /\ Matched(r) => ret.next = r.next /\ ret.value = r.value
            /\ Failed(r) \/ Matched(r)

\* optional(sequence(literal('a').as(a => 'A'), any)) on "ab...", from a
\* stream where the sequence fails: the stream given comes back.
C9_Witness ==
    /\ ret.op = "parser" /\ ret.p = "opt_seq" /\ ret.s = 2
    /\ ret.next = 2 /\ ret.value = NO_VALUE
    /\ Len(generator.input) = 2
    /\ generator.input[1] = Tok("a") /\ generator.input[2] = Tok("b")
    /\ Failed(Returned("seq_A_any", 2))
    /\ Matched(Returned("seq_A_any", 1))

\* What as_fluent_parser makes of the result r of the function it wraps,
\* with mapping function f: no value when r fails or has none.
Mapped(f, r) ==
    IF IsNoMatch(r.next) \/ r.value = NO_VALUE THEN NO_VALUE
    ELSE call_fn(f, r.value)

\* A call of p, a parser made by to_be_defined(), on stream s returned next
\* and value: the stream is the one the parser now bound returns on s, and the
\* value is the one it returns, given to the mapping function of p itself.
Delegates(p, s, next, value) ==
    LET r == Returned(parser[p], s)
    IN  /\ next = r.next
        /\ value = Mapped(value_fn[p], r)
        /\ parser[p] = "none" => next = NO_MATCH /\ value = NO_VALUE

\* C10, as amended: a parser made by to_be_defined() fails on every stream
\* while none is bound to it, as it is until define() is called.  After
\* that each call of it, also by the parsers made from it before it was
\* defined, returns the stream the parser bound last returns on that stream;
\* its value is the value that parser returns, given to the mapping function
\* of the to_be_defined() parser itself (the identity until .as() is
\* called on it), and no value when the bound parser fails or has none.
C10_DefinedParserDelegates ==
    (ret.op = "parser" /\ ret.returns) =>
        /\ ret.p \in ToBeDefined =>
              /\ Delegates(ret.p, ret.s, ret.next, ret.value)
              /\ Len(ret.log) = 1
              /\ ret.log[1].p = parser[ret.p]
              /\ ret.log[1].s = ret.s
        /\ \A i \in 1..Len(ret.log) :
              ret.log[i].p \in ToBeDefined =>
                  Delegates(ret.log[i].p, ret.log[i].s,
                            ret.log[i].next, ret.log[i].value)

\* The parser was defined as sequence(literal('a').as(a => 'A'), any) and
\* given first_value, as parlance.js does to its placeholder; many(later),
\* built before, is called on "ab": the bound parser returns ['A', 'b'] and
\* the to_be_defined() parser 'A'.
C10_Witness ==
    /\ ret.op = "parser" /\ ret.p = "many_later" /\ ret.s = 1
    /\ parser["later"] = "seq_A_any" /\ value_fn["later"] = "first_value"
    /\ Len(ret.log) = 2
    /\ ret.log[1].p = "later" /\ ret.log[1].value = Tok("A")
    /\ Returned("seq_A_any", 1).value = Arr(<<Tok("A"), Tok("b")>>)
    /\ ret.value = Arr(<<Tok("A")>>) /\ ret.next = 3

\* C10, as stated: each call of a parser made by to_be_defined() returns
\* what the parser now bound returns on that stream, the stream and the
\* value.
C10_ReturnsWhatBoundParserReturns ==
    (ret.op = "parser" /\ ret.returns /\ ret.p \in ToBeDefined) =>
        LET r == Returned(parser[ret.p], ret.s)
        IN  /\ ret.next = r.next
            /\ ret.value = r.value

(***************************************************************************)
(* Nested parentheses.                                                     *)
(***************************************************************************)
\* The tokens of the input from the position of stream s on.
Rest(s) ==
    SubSeq(generator.input, streams[s].depth + 1, Len(generator.input))

\* The call returned a stream, the one at the end of the input: the parser
\* matched all of it (assert_that(...).is_a_valid).
ConsumedAll(next) ==
    /\ ~IsNoMatch(next)
    /\ streams[next].depth = Len(generator.input)

\* The '(' less the ')' among the first k characters of w.
RECURSIVE Balance(_, _)
Balance(w, k) ==
    IF k = 0 THEN 0
    ELSE Balance(w, k - 1) + (IF w[k] = Tok("(") THEN 1 ELSE -1)

\* w is one balanced group: not empty, balanced, and its first '(' is
\* closed by its last ')'.
SingleGroup(w) ==
    /\ Len(w) > 0
    /\ Balance(w, Len(w)) = 0
    /\ \A k \in 1..(Len(w) - 1) : Balance(w, k) > 0

\* C11: with parens defined as sequence(open, many(parens), close), every
\* call of parens on a string of parentheses returns, and it matches all of
\* the input from the stream it is given iff that input is one balanced
\* group.
C11_ParensMatchesOneBalancedGroup ==
    (ret.op = "parser" /\ ret.p = "parens"
        /\ parser["parens"] = "parens_body") =>
        /\ ret.returns
        /\ ConsumedAll(ret.next) = SingleGroup(Rest(ret.s))

\* "(()())" is matched in full from its first stream.
C11_Witness ==
    /\ ret.op = "parser" /\ ret.p = "parens" /\ ret.s = 1
    /\ parser["parens"] = "parens_body"
    /\ generator.input = <<Tok("("), Tok("("), Tok(")"),
                           Tok("("), Tok(")"), Tok(")")>>
    /\ ConsumedAll(ret.next) /\ ret.next = 7

(***************************************************************************)
(* skip_to and enclosed.                                                   *)
(***************************************************************************)
\* Parser p matches at position k of the input (k tokens before it).
MatchesAt(p, k) == Matched(Run(p, k + 1, Untouched(k)))

\* The first position from d on, the end of the input included, at which
\* parser p matches; -1 when there is none.
FirstAt(p, d) ==
    LET at == {k \in d..Len(generator.input) : MatchesAt(p, k)}
    IN  IF at = {} THEN -1 ELSE CHOOSE k \in at : \A j \in at : k <= j

\* C12: when parser matches at some position from s on, the end of the
\* input included, skip_to(parser)(s) returns the stream at the first such
\* position, on which parser still matches, and as value the list of the
\* tokens from s up to it, in order, or no value when parser matches at s.
C12_SkipToStopsAtFirstMatch ==
    (ret.op = "parser" /\ Grammar[ret.p].op = "skip_to" /\ ret.returns) =>
        LET p == Grammar[ret.p].parsers[1]
            d == streams[ret.s].depth
            k == FirstAt(p, d)
        IN  k >= 0 =>
              /\ ~IsNoMatch(ret.next)
              /\ streams[ret.next].depth = k
              /\ Matched(Returned(p, ret.next))
              /\ ret.value = IF k = d THEN NO_VALUE
                             ELSE Arr(SubSeq(generator.input, d + 1, k))

\* skip_to(sequence(literal('a').as(a => 'A'), any)) on "bab": it stops at
\* the second stream, before the 'a', having passed 'b'.
C12_Witness ==
    /\ ret.op = "parser" /\ ret.p = "skip_to_A_any" /\ ret.s = 1
    /\ generator.input = <<Tok("b"), Tok("a"), Tok("b")>>
    /\ ret.next = 2 /\ ret.value = Arr(<<Tok("b")>>)
    /\ Len(ret.log) = 2

\* C13: skip_to(parser)(s) fails iff parser matches at no position from s
\* to the end of the input, the end included; it then returns NO_MATCH with
\* no value, not the list of the tokens it passed.  It always returns.
C13_SkipToFailsWithoutValue ==
    (ret.op = "parser" /\ Grammar[ret.p].op = "skip_to") =>
        LET p == Grammar[ret.p].parsers[1]
            k == FirstAt(p, streams[ret.s].depth)
        IN  /\ ret.returns
            /\ (ret.next = NO_MATCH) = (k = -1)
            /\ IsNoMatch(ret.next) = (k = -1)
            /\ k = -1 => ret.value = NO_VALUE

\* skip_to(literal('a')) on "bbb": it tried every position and the end of
\* the input, and fails with no value.
C13_Witness ==
    /\ ret.op = "parser" /\ ret.p = "skip_to_a" /\ ret.s = 1
    /\ generator.input = <<Tok("b"), Tok("b"), Tok("b")>>
    /\ ret.next = NO_MATCH /\ ret.value = NO_VALUE
    /\ Len(ret.log) = 4 /\ ret.log[4].s = 4

\* The depth of the stream a call returned, in the heap the call left.
DepthOf(r) == r.h.streams[r.next].depth

\* What the parts of e = enclosed(opening, inner, closing) do on the input
\* from position d, each on a stream nothing has read: the opening at d;
\* the first position after the opening at which closing matches (-1 when
\* there is none); the tokens between the two; inner on a stream of those
\* tokens; closing at the position found.
OpeningOf(e, d) == Run(Grammar[e].parsers[1], d + 1, Untouched(d))
ClosingAt(e, d) == FirstAt(Grammar[e].parsers[3], DepthOf(OpeningOf(e, d)))
BetweenOf(e, d) ==
    SubSeq(generator.input, DepthOf(OpeningOf(e, d)) + 1, ClosingAt(e, d))
InnerOf(e, d) == Run(Grammar[e].parsers[2], 1, NewStream(BetweenOf(e, d)))
ClosingOf(e, d) ==
    Run(Grammar[e].parsers[3], ClosingAt(e, d) + 1, Untouched(ClosingAt(e, d)))

\* inner matches all of the tokens between the opening and the closing.
InnerTakesAll(e, d) ==
    /\ Matched(InnerOf(e, d))
    /\ DepthOf(InnerOf(e, d)) = Len(BetweenOf(e, d))

\* C14: enclosed(opening, inner, closing)(s) fails iff opening fails at s,
\* or closing matches at no position after the opening, or inner fails on
\* the tokens between them or does not take them all.  In every other case
\* it matches: closing, called at the position found, does not fail.  A
\* failure is NO_MATCH with no value.
C14_EnclosedFailsIffAStepFails ==
    (ret.op = "parser" /\ Grammar[ret.p].op = "enclosed") =>
        LET d == streams[ret.s].depth
            fails == \/ Failed(OpeningOf(ret.p, d))
                     \/ ClosingAt(ret.p, d) = -1
                     \/ ~InnerTakesAll(ret.p, d)
        IN  /\ ret.returns
            /\ IsNoMatch(ret.next) = fails
            /\ fails => ret.next = NO_MATCH /\ ret.value = NO_VALUE
            /\ ~fails => Len(ret.log) = 4 /\ ~IsNoMatch(ret.log[4].next)

\* enclosed(literal('a'), sequence(), literal('b')) on "aab": the opening
\* and the closing are found, the inner parser matches on the 'a' between
\* them without taking it, and enclosed fails.
C14_Witness ==
    /\ ret.op = "parser" /\ ret.p = "enc_empty" /\ ret.s = 1
    /\ generator.input = <<Tok("a"), Tok("a"), Tok("b")>>
    /\ ret.next = NO_MATCH /\ ret.value = NO_VALUE
    /\ Len(ret.log) = 3
    /\ ret.log[2].next = 3 /\ ret.log[3].next = 1

\* w starts with "[[" and the first "]]" after that ends w.
BoxedWhole(w) ==
    LET closes == {j \in 3..(Len(w) - 1) :
                      w[j] = Tok("]") /\ w[j + 1] = Tok("]")}
    IN  /\ Len(w) >= 4
        /\ w[1] = Tok("[") /\ w[2] = Tok("[")
        /\ closes # {}
        /\ \A j \in closes : j >= Len(w) - 1

\* C15: when enclosed(opening, inner, closing)(s) matches, it returns the
\* stream closing returns at the first position after the opening at which
\* closing matches; inner was called on a stream of its own that holds the
\* tokens between the opening and that position, whatever inner is.  So box
\* = enclosed("[[", many(any), "]]") matches all of an input iff the input
\* starts with "[[" and the first "]]" after it ends the input, and its
\* value is then [opening, the tokens between, closing].
C15_EnclosedClosesAtFirstClosing ==
    (ret.op = "parser" /\ Grammar[ret.p].op = "enclosed" /\ ret.returns) =>
        LET d == streams[ret.s].depth
        IN  /\ ~IsNoMatch(ret.next) =>
                  /\ streams[ret.next].depth = DepthOf(ClosingOf(ret.p, d))
                  /\ streams[ret.log[2].next].depth = ClosingAt(ret.p, d)
                  /\ ret.log[3].s = 1
                  /\ ret.log[3].value = InnerOf(ret.p, d).value
                  /\ ret.log[4].s = ret.log[2].next
            /\ ret.p = "box" =>
                  /\ ConsumedAll(ret.next) = BoxedWhole(Rest(ret.s))
                  /\ ~IsNoMatch(ret.next) =>
                        ret.value = Arr(<<Arr(<<Tok("["), Tok("[")>>),
                                          Arr(BetweenOf(ret.p, d)),
                                          Arr(<<Tok("]"), Tok("]")>>)>>)

\* box on "[[][]]": the single ']' inside does not close the box, the input
\* is matched in full and "][" is what inner got.
C15_Witness ==
    /\ ret.op = "parser" /\ ret.p = "box" /\ ret.s = 1
    /\ generator.input = <<Tok("["), Tok("["), Tok("]"),
                           Tok("["), Tok("]"), Tok("]")>>
    /\ ConsumedAll(ret.next)
    /\ ret.log[3].value = Arr(<<Tok("]"), Tok("[")>>)

(***************************************************************************)
(* Mapping values.                                                         *)
(***************************************************************************)
\* C16: as(p, f)(s) returns the stream p(s) returns.  When p matches with a
\* value that is not the absent value, f is called once, with that value;
\* when p fails or matches with the absent value, f is not called and the
\* value returned is the absent value.
C16_AsKeepsStreamAndSkipsNoValue ==
    (ret.op = "parser" /\ Grammar[ret.p].op = "as" /\ ret.returns) =>
        LET f == Grammar[ret.p].fn
            r == Returned(Grammar[ret.p].parsers[1], ret.s)
        IN  /\ ret.next = r.next
            /\ IF Matched(r) /\ r.value # NO_VALUE
               THEN ret.applied = <<[fn |-> f, value |-> r.value]>>
               ELSE ret.applied = <<>> /\ ret.value = NO_VALUE

\* as(optional(literal('a')), a => 'A') on "b": optional matches with no
\* value, the mapping function is not called and there is no value.
C16_Witness ==
    /\ ret.op = "parser" /\ ret.p = "as_opt_A" /\ ret.s = 1
    /\ generator.input = <<Tok("b")>>
    /\ ret.next = 1 /\ ret.value = NO_VALUE /\ ret.applied = <<>>
    /\ call_fn("constant_A", NO_VALUE) = Tok("A")

\* C17, as amended: when p matches on s with a value that is not the absent
\* value, the value of as(p, f)(s) is f of the value p(s) returns (null is
\* such a value); when p matches with the absent value, so does as(p, f).
C17_AsMapsPresentValues ==
    (ret.op = "parser" /\ Grammar[ret.p].op = "as" /\ ret.returns) =>
        LET f == Grammar[ret.p].fn
            r == Returned(Grammar[ret.p].parsers[1], ret.s)
        IN  Matched(r) =>
              /\ ~IsNoMatch(ret.next)
              /\ ret.value = IF r.value = NO_VALUE THEN NO_VALUE
                             ELSE call_fn(f, r.value)

\* as(literal('a').as(a => null), value => new Message(value)) on "a": the
\* parser's value is null, and the mapping function was given it.
C17_Witness ==
    /\ ret.op = "parser" /\ ret.p = "as_null_boxed" /\ ret.s = 1
    /\ ret.next = 2
    /\ Returned("a_as_null", 1).value = null
    /\ ret.value = Val("object", "boxed", <<null>>)

\* C17, as stated: whenever p matches on s, the value of as(p, f)(s) is f of
\* the value p(s) returns.
C17_AsMapsEveryValue ==
    (ret.op = "parser" /\ Grammar[ret.p].op = "as" /\ ret.returns) =>
        LET f == Grammar[ret.p].fn
            r == Returned(Grammar[ret.p].parsers[1], ret.s)
        IN  Matched(r) => ret.value = call_fn(f, r.value)

(***************************************************************************)
(* The fluent parsers.                                                     *)
(***************************************************************************)
\* The parser of Remapped that a parser of CalledFluent is, or is made
\* from: literal('a') for many(literal('a')), any for many(any).
LeafOf(p) == IF p \in {"a", "many_a"} THEN "a" ELSE "any"

\* The tokens from position d on that the parser leaf matches one after the
\* other: every 'a' for literal('a'), every token for any.
RECURSIVE Leading(_, _)
Leading(leaf, d) ==
    IF d < Len(generator.input)
       /\ (leaf = "any" \/ generator.input[d + 1] = Tok("a"))
    THEN 1 + Leading(leaf, d + 1)
    ELSE 0

\* The position of the stream a parser of CalledFluent returns as it was
\* built, called at position d; -1 when it fails.
BuiltDepth(p, d) ==
    IF Grammar[p].op = "many" THEN d + Leading(LeafOf(p), d)
    ELSE IF Leading(LeafOf(p), d) > 0 THEN d + 1 ELSE -1

\* The value a parser of CalledFluent returns as it was built, with the
\* value => value every fluent parser starts with, when it is called on
\* stream s and returns stream next: the tokens it matched, one token for
\* literal('a') and any, a list for many(...).
BuiltValue(p, s, next) ==
    LET matched == IF IsNoMatch(next) THEN <<>>
                   ELSE SubSeq(generator.input, streams[s].depth + 1,
                               streams[next].depth)
    IN  CASE Grammar[p].op = "many" -> Arr(matched)
          [] OTHER -> IF matched = <<>> THEN NO_VALUE ELSE matched[1]

\* The same value with the mapping function f in the place of value =>
\* value at the parser LeafOf(p): f of each token, the absent ones left
\* out of a list.
RemappedValue(p, s, next, f) ==
    LET built == BuiltValue(p, s, next)
        RECURSIVE Each(_)
        Each(i) ==
            IF i > Len(built.items) THEN <<>>
            ELSE IF call_fn(f, built.items[i]) # NO_VALUE
                 THEN <<call_fn(f, built.items[i])>> \o Each(i + 1)
                 ELSE Each(i + 1)
    IN  CASE Grammar[p].op = "many" -> Arr(Each(1))
          [] OTHER -> IF built = NO_VALUE THEN NO_VALUE ELSE call_fn(f, built)

\* C18, as amended: apart from define(), the one operation that changes
\* what a parser already made returns is .as().  p.as(f) returns p itself
\* and puts f in the place of p's mapping function: from then on p and the
\* parsers made from p before return the values f gives (the shared any,
\* too, when .as() is called on it).  The stream a parser returns does not
\* change, and the parsers not made from p return the values they returned
\* as built.
C18_OnlyAsChangesValues ==
    /\ (ret.op = "parser" /\ ret.returns) =>
          LET d == BuiltDepth(ret.p, streams[ret.s].depth)
              f == value_fn[LeafOf(ret.p)]
          IN  /\ IF d = -1 THEN ret.next = NO_MATCH
                 ELSE ~IsNoMatch(ret.next) /\ streams[ret.next].depth = d
              /\ ret.value = RemappedValue(ret.p, ret.s, ret.next, f)
              /\ f = "identity" =>
                    ret.value = BuiltValue(ret.p, ret.s, ret.next)
    /\ ret.op = "as" => ret.value = ParserRef(ret.p)

\* After literal('a').as(a => 'A') and any.as(ignored_value), many(literal(
\* 'a')), made before, returns ['A', 'A'] on "aab" and many(any) would
\* return [].
C18_Witness ==
    /\ ret.op = "parser" /\ ret.p = "many_a" /\ ret.s = 1
    /\ value_fn["a"] = "constant_A" /\ value_fn["any"] = "ignored_value"
    /\ ret.value = Arr(<<Tok("A"), Tok("A")>>) /\ ret.next = 3
    /\ Returned("many_any", 1).value = Arr(<<>>)
    /\ BuiltValue("many_a", 1, 3) = Arr(<<Tok("a"), Tok("a")>>)

\* C18, as stated: parsers are immutable.  Whatever calls of p.as(f) were
\* made since the parsers were built, every parser returns on every stream
\* the value it returned as built: p itself, the parsers made from p, and
\* the shared any.
C18_AsLeavesParsersUnchanged ==
    (ret.op = "parser" /\ ret.returns) =>
        ret.value = BuiltValue(ret.p, ret.s, ret.next)

(***************************************************************************)
(* Failure is a value.                                                     *)
(***************************************************************************)
\* C19: no call of a parser ends in an exception: head() and tail() are
\* never called on NO_MATCH, not by the parser called and not by the parsers
\* it calls.  A call that returns returns NO_MATCH with no value, or a
\* Stream with a value.
C19_NoMatchIsReturned ==
    ret.op = "parser" =>
        /\ ret.value # TypeError
        /\ \A i \in 1..Len(ret.log) :
              ret.log[i].value # TypeError /\ ~IsNoMatch(ret.log[i].s)
        /\ ret.returns =>
              \/ ret.next = NO_MATCH /\ ret.value = NO_VALUE
              \/ ret.next \in Objects

\* sequence(skip_to(literal('a')), literal('a')) on "bb": skip_to fails at
\* the end of the input, the sequence returns the failure and literal('a')
\* is not called on it.
C19_Witness ==
    /\ ret.op = "parser" /\ ret.p = "seq_skip_a" /\ ret.s = 1
    /\ generator.input = <<Tok("b"), Tok("b")>>
    /\ ret.returns /\ ret.next = NO_MATCH /\ ret.value = NO_VALUE
    /\ Len(ret.log) = 1 /\ ret.log[1].next = NO_MATCH
    /\ Len(streams) = 3 /\ streams[3].lazy_tail = NullRef

\* C20, as amended: on a stream that is not at the end of the input, any(s)
\* matches whatever the token is: it returns the stream s.tail() and the
\* value s.head().  On the stream at the end of the input any(s) fails: it
\* returns NO_MATCH with no value.
C20_AnyTakesOneToken ==
    (ret.op = "parser" /\ ret.p = "any") =>
        /\ ret.returns
        /\ IF streams[ret.s].depth < Len(generator.input)
           THEN /\ ~IsNoMatch(ret.next)
                /\ ret.next = tail(Heap, ret.s).next
                /\ ret.value = head(Heap, ret.s).value
                /\ ret.value = Token(streams[ret.s].depth)
                /\ streams[ret.next].depth = streams[ret.s].depth + 1
           ELSE ret.next = NO_MATCH /\ ret.value = NO_VALUE

\* any on the stream at the end of a list of two elements, an object the
\* second: it fails, with no value.
C20_Witness ==
    /\ ret.op = "parser" /\ ret.p = "any"
    /\ generator.kind = "list" /\ Len(generator.input) = 2
    /\ generator.input[2] = Obj("o")
    /\ streams[ret.s].depth = 2
    /\ ret.next = NO_MATCH /\ ret.value = NO_VALUE
    /\ streams[ret.s - 1].lazy_head = Obj("o")

\* C20, as stated: on every stream any(s) matches: it does not return
\* NO_MATCH, and returns the stream s.tail() with the value s.head().
C20_AnyAlwaysSucceeds ==
    (ret.op = "parser" /\ ret.p = "any") =>
        /\ ~IsNoMatch(ret.next)
        /\ ret.next = tail(Heap, ret.s).next
        /\ ret.value = head(Heap, ret.s).value

(***************************************************************************)
(* Literals.                                                               *)
(***************************************************************************)
\* C21: literal(t)(s) matches iff the head of s is the token t.  It then
\* returns the stream s.tail() and the value t, so that on the list [t] the
\* stream returned is the end of the input; on a token u other than t it
\* fails, with no value.
C21_LiteralMatchesItsTokenOnly ==
    (ret.op = "parser" /\ Grammar[ret.p].test.fn = "equals") =>
        LET t == Grammar[ret.p].test.expected
            u == Token(streams[ret.s].depth)
        IN  /\ ret.returns
            /\ IF u = t
               THEN /\ ~IsNoMatch(ret.next)
                    /\ ret.next = tail(Heap, ret.s).next
                    /\ streams[ret.next].depth = streams[ret.s].depth + 1
                    /\ ret.value = t
               ELSE ret.next = NO_MATCH /\ ret.value = NO_VALUE

\* literal('1') on the list [1]: the number is not the character, and the
\* literal matches it; its value is the number.
C21_Witness ==
    /\ ret.op = "parser" /\ ret.p = "one" /\ ret.s = 1
    /\ generator.input = <<Num("1")>>
    /\ ret.next = 2 /\ ret.value = Num("1")
    /\ streams[2].depth = Len(generator.input)

(***************************************************************************)
(* The end of the input.                                                   *)
(***************************************************************************)
\* C22: at_end(s) matches iff the head of s is the end of the input; it
\* then returns s itself, with no value, and fails with no value otherwise.
\* So sequence(p, at_end)(s) matches exactly when p matches on s and returns
\* the stream at the end of the input, and it returns that stream and the
\* value of p.
C22_AtEndMatchesAtTheEndOnly ==
    ret.op = "parser" =>
        /\ ret.p = "at_end" =>
              /\ ret.returns
              /\ IsNullish(head(Heap, ret.s).value) =
                    (streams[ret.s].depth = Len(generator.input))
              /\ IF IsNullish(head(Heap, ret.s).value)
                 THEN ret.next = ret.s /\ ret.value = NO_VALUE
                 ELSE ret.next = NO_MATCH /\ ret.value = NO_VALUE
        /\ (Grammar[ret.p].op = "sequence" /\ Len(Grammar[ret.p].parsers) = 2
               /\ Grammar[ret.p].parsers[2] = "at_end") =>
              LET r == Returned(Grammar[ret.p].parsers[1], ret.s)
                  whole == Matched(r) /\ DepthOf(r) = Len(generator.input)
              IN  /\ ret.returns /\ r.returns
                  /\ ~IsNoMatch(ret.next) = whole
                  /\ whole => /\ ret.next = r.next
                              /\ ret.value = Arr(Present(<<r>>))
                  /\ ~whole => ret.next = NO_MATCH /\ ret.value = NO_VALUE

\* sequence(literal('a'), at_end) on "a": at_end is called on the stream
\* after the 'a', returns that stream and no value, and the sequence matches
\* with ['a'].
C22_Witness ==
    /\ ret.op = "parser" /\ ret.p = "final_a" /\ ret.s = 1
    /\ generator.input = <<Tok("a")>>
    /\ ret.next = 2 /\ ret.value = Arr(<<Tok("a")>>)
    /\ ret.log[2].p = "at_end" /\ ret.log[2].s = 2
    /\ ret.log[2].next = 2 /\ ret.log[2].value = NO_VALUE

\* C23: a stream whose head is the end of the input (null) has null as its
\* tail, not a further Stream, and a stream whose head is a token has a
\* Stream as its tail: in what tail() returns, and in the fields of every
\* stream whose tail was asked for.
C23_TailOfTheEndIsTheEnd ==
    /\ \A s \in Objects :
          LET hd == head(Heap, s)
              tl == tail(Heap, s)
          IN  /\ (tl.next = NullRef) = IsNullish(hd.value)
              /\ ~IsNullish(hd.value) =>
                    /\ tl.next \in 1..Len(tl.h.streams)
                    /\ tl.h.streams[tl.next].depth = streams[s].depth + 1
              /\ streams[s].lazy_tail # UndefinedRef =>
                    /\ streams[s].lazy_head # undefined
                    /\ (streams[s].lazy_tail = NullRef) =
                          (streams[s].lazy_head = null)
    /\ ret.op = "tail" =>
          (ret.next = NullRef) = IsNullish(head(Heap, ret.s).value)

\* tail() on the stream at the end of a list of two elements returned null,
\* before head() was ever called on that stream; the stream before it has
\* a token as head and this stream as tail.
C23_Witness ==
    /\ ret.op = "tail" /\ ret.s = 3 /\ ret.next = NullRef
    /\ generator.kind = "list" /\ Len(generator.input) = 2
    /\ streams[3].lazy_head = null /\ streams[3].lazy_tail = NullRef
    /\ streams[2].lazy_head = generator.input[2] /\ streams[2].lazy_tail = 3
    /\ Len(streams) = 3

\* C24: p.as(g) returns p and puts g in the place of the mapping function
\* p had, whatever that was: .as() called again does not give g the values
\* of the function before.  After p.as(f).as(g) a call of p that matches
\* with a value calls g once, with the value of the parser p wraps, and
\* returns what g returns; f is not called.  A parser on which .as() was
\* never called returns the value of the parser it wraps as it is.  (When
\* the wrapped parser matches with the absent value no mapping function is
\* called: C16.)
C24_AsRebindsTheMappingFunction ==
    /\ ret.op = "as" =>
          /\ ret.value = ParserRef(ret.p)
          /\ \A s \in Objects :
                LET raw == Wrapped(ret.p, s, Heap)
                    r == Returned(ret.p, s)
                IN  (Matched(raw) /\ raw.value # NO_VALUE) =>
                      /\ r.next = raw.next
                      /\ r.value = call_fn(ret.given, raw.value)
                      /\ r.applied = <<[fn |-> ret.given, value |-> raw.value]>>
    /\ (ret.op = "parser" /\ ret.returns) =>
          LET raw == Wrapped(ret.p, ret.s, Heap)
          IN  /\ ret.next = raw.next
              /\ (Matched(raw) /\ raw.value # NO_VALUE) =>
                    /\ ret.value = call_fn(value_fn[ret.p], raw.value)
                    /\ ret.applied =
                          <<[fn |-> value_fn[ret.p], value |-> raw.value]>>
              /\ (Matched(raw) /\ ret.p \notin Rebound) =>
                    ret.value = raw.value

\* literal('a').as(ignored_value).as(a => 'A') on "a...": the parser
\* returns 'A'.  Had a => 'A' been given the values of ignored_value, it
\* would not have been called and the parser would have no value.
C24_Witness ==
    /\ ret.op = "as" /\ ret.p = "a"
    /\ ret.replaced = "ignored_value" /\ ret.given = "constant_A"
    /\ Len(generator.input) > 0 /\ generator.input[1] = Tok("a")
    /\ Returned("a", 1).value = Tok("A")
    /\ Returned("a", 1).applied = <<[fn |-> "constant_A", value |-> Tok("a")]>>
    /\ call_fn("ignored_value", Tok("a")) = NO_VALUE

(***************************************************************************)
(* Repetition.                                                             *)
(***************************************************************************)
\* The call of a parser recorded in e matched without moving on: it
\* returned the stream it was given.
Stalled(e) == e.returns /\ ~IsNoMatch(e.next) /\ e.next = e.s

\* C25: many(p)(s) calls p again and again, each time on the stream p
\* returned.  When every call of p that matches moves on by at least one
\* token, many(p) returns, after at most n + 1 calls of p on a stream with n
\* tokens left (many(any) after exactly n + 1: any fails at the end of the
\* input).  There is no guard: as soon as a call of p matches and returns
\* the stream it was given, many(p) never returns; so it is at the end of
\* the input with p = at_end, and on every stream with p = optional(q) and
\* p = many(q).
C25_ManyReturnsIffPMovesOn ==
    (ret.op = "parser" /\ Grammar[ret.p].op = "many") =>
        LET p == Grammar[ret.p].parsers[1]
            n == Len(generator.input) - streams[ret.s].depth
            calls == Len(ret.log)
        IN  /\ ret.value # TypeError
            /\ \A i \in 1..calls :
                  /\ ret.log[i].p = p /\ ret.log[i].returns
                  /\ ret.log[i].s = IF i = 1 THEN ret.s ELSE ret.log[i - 1].next
            /\ ret.returns = (\A i \in 1..calls : ~Stalled(ret.log[i]))
            /\ ret.returns =>
                  /\ calls <= n + 1
                  /\ IsNoMatch(ret.log[calls].next)
                  /\ \A i \in 1..(calls - 1) :
                        streams[ret.log[i].next].depth
                            > streams[ret.log[i].s].depth
            /\ ~ret.returns => Stalled(ret.log[calls])
            /\ p = "any" => ret.returns /\ calls = n + 1
            /\ p = "at_end" => ret.returns = (n > 0)
            /\ Grammar[p].op \in {"optional", "many"} => ~ret.returns

\* many(optional(literal('a'))) on "ab": optional matches the 'a' and moves
\* on, then matches at the 'b' without a value and without moving, and many
\* calls it there for ever.
C25_Witness ==
    /\ ret.op = "parser" /\ ret.p = "many_opt" /\ ret.s = 1
    /\ generator.input = <<Tok("a"), Tok("b")>>
    /\ ~ret.returns /\ ret.value # TypeError
    /\ ret.log[1].next = 2
    /\ Stalled(ret.log[Len(ret.log)]) /\ ret.log[Len(ret.log)].s = 2
    /\ Returned("many_any", 1).returns /\ Len(Returned("many_any", 1).log) = 3

(***************************************************************************)
(* The two sentinels.                                                      *)
(***************************************************************************)
\* C26: a parser made by the library that returns NO_MATCH as stream returns
\* NO_VALUE as value, and calls no mapping function: the parser called and
\* every parser it called.  This is so when the function it wraps returned
\* a value with NO_MATCH: skip_to at the end of the input returns the tokens
\* it passed, and match returns the null at the end of the input when the
\* test accepts it.
C26_FailureHasNoValue ==
    (ret.op = "parser" /\ ret.returns) =>
        /\ IsNoMatch(ret.next) =>
              /\ ret.next = NO_MATCH
              /\ ret.value = NO_VALUE
              /\ ret.applied = <<>>
        /\ \A i \in 1..Len(ret.log) :
              (ret.log[i].returns /\ IsNoMatch(ret.log[i].next)) =>
                  /\ ret.log[i].next = NO_MATCH
                  /\ ret.log[i].value = NO_VALUE

\* skip_to(literal('a')).as(a => 'A') on "bb": the function skip_to wraps
\* returns null with ['b', 'b', null] (the tokens it passed and the head of
\* the stream at the end), and the parser NO_MATCH with no value; on the
\* stream at the end any's match returns null with null, and any NO_MATCH
\* with no value.
C26_Witness ==
    /\ ret.op = "parser" /\ ret.p = "skip_to_a" /\ ret.s = 1
    /\ generator.input = <<Tok("b"), Tok("b")>>
    /\ value_fn["skip_to_a"] = "constant_A"
    /\ ret.next = NO_MATCH /\ ret.value = NO_VALUE
    /\ Wrapped("skip_to_a", 1, Heap).next = NullRef
    /\ Wrapped("skip_to_a", 1, Heap).value = Arr(<<Tok("b"), Tok("b"), null>>)
    /\ Wrapped("any", 3, Heap).next = NullRef
    /\ Wrapped("any", 3, Heap).value = null
    /\ Returned("any", 3).value = NO_VALUE

(***************************************************************************)
(* Forward only.                                                           *)
(***************************************************************************)
\* Stream t is stream s or is reached from s by calls of tail().
RECURSIVE ReachedFrom(_, _)
ReachedFrom(s, t) ==
    \/ s = t
    \/ /\ streams[s].lazy_tail \in Objects
       /\ ReachedFrom(streams[s].lazy_tail, t)

\* C27: a parser that matches on stream s returns s or a stream reached
\* from s by calls of tail(), never a stream before s; so does every parser
\* it calls on the stream it is given there.  enclosed() calls its inner
\* parser on a stream of its own, the first of a new chain, and returns the
\* stream its closing parser returned, which is reached from s: no stream
\* of the new chain is returned.
C27_ParsersMoveForward ==
    (ret.op = "parser" /\ ret.returns) =>
        /\ ~IsNoMatch(ret.next) =>
              /\ ret.next \in Objects
              /\ ReachedFrom(ret.s, ret.next)
              /\ streams[ret.next].depth >= streams[ret.s].depth
        /\ \A i \in 1..Len(ret.log) :
              LET e == ret.log[i]
                  own == Grammar[ret.p].op = "enclosed" /\ i = 3
              IN  /\ ~own =>
                        /\ ReachedFrom(ret.s, e.s)
                        /\ (e.returns /\ ~IsNoMatch(e.next)) =>
                              ReachedFrom(e.s, e.next)
                  /\ own => e.s = 1 /\ e.p = Grammar[ret.p].parsers[2]
        /\ (Grammar[ret.p].op = "enclosed" /\ ~IsNoMatch(ret.next)) =>
              /\ ret.next = ret.log[4].next
              /\ ReachedFrom(ret.log[2].next, ret.next)

\* enclosed(literal('a'), many(any), literal('b')) on "aab": inner is called
\* on the first stream of a chain of its own and returns the second of that
\* chain; enclosed returns the fourth stream of the input.
C27_Witness ==
    /\ ret.op = "parser" /\ ret.p = "enc_any" /\ ret.s = 1
    /\ generator.input = <<Tok("a"), Tok("a"), Tok("b")>>
    /\ ret.log[3].s = 1 /\ ret.log[3].next = 2
    /\ ret.log[2].next = 3
    /\ ret.next = 4 /\ ReachedFrom(1, 4) /\ ~ReachedFrom(4, 1)

(***************************************************************************)
(* On demand.                                                              *)
(***************************************************************************)
\* The calls of the generator made so far in heap h: those of all streams.
RECURSIVE PullsOf(_, _)
PullsOf(h, k) ==
    IF k = 0 THEN 0 ELSE h.streams[k].pulls + PullsOf(h, k - 1)

Pulls(h) == PullsOf(h, Len(h.streams))

\* The positions of the input whose head was asked for.
Inspected == {streams[s].depth : s \in {t \in Objects : streams[t].pulls > 0}}

\* The calls of the generator that the streams other than s made are the
\* same in heap h as now.
OnlyPulled(h, s) ==
    \A t \in 1..Len(h.streams) :
        t # s => h.streams[t].pulls =
                    IF t \in Objects THEN streams[t].pulls ELSE 0

\* C28: the generator is called on demand only.  tail() on a stream calls
\* it for that stream's own head, if that was not asked for before, and not
\* for the stream it makes; a parser that matches one token (any) leaves
\* one call made for the stream it is given, and none for the one it
\* returns; and after every call the number of calls of the generator made
\* so far is the number of positions whose head was asked for.  These are
\* the positions from the first on, without a gap, so the generator has
\* produced no token beyond the furthest of them.
C28_TokensArePulledOnDemand ==
    /\ \A s \in Objects :
          LET tl == tail(Heap, s)
              r == Returned("any", s)
          IN  /\ OnlyPulled(tl.h, s)
              /\ tl.h.streams[s].pulls = 1
              /\ Pulls(tl.h) - Pulls(Heap) = 1 - streams[s].pulls
              /\ OnlyPulled(r.h, s)
              /\ r.h.streams[s].pulls = 1
    /\ Pulls(Heap) = Cardinality(Inspected)
    /\ Inspected = 0..(Pulls(Heap) - 1)
    /\ generator.position =
          IF Pulls(Heap) <= Len(generator.input)
          THEN Pulls(Heap) ELSE Len(generator.input)
    /\ \A s \in Objects : streams[s].depth <= Pulls(Heap)

\* many(literal('a')) on "abb": the heads of the first two streams were
\* asked for, the generator was called twice, the third token has not been
\* produced and no third stream was made.
C28_Witness ==
    /\ ret.op = "parser" /\ ret.p = "many_a" /\ ret.s = 1
    /\ generator.input = <<Tok("a"), Tok("b"), Tok("b")>>
    /\ ret.next = 2 /\ ret.value = Arr(<<Tok("a")>>)
    /\ Pulls(Heap) = 2 /\ generator.position = 2
    /\ Len(streams) = 2 /\ streams[2].lazy_tail = UndefinedRef

(***************************************************************************)
(* C29: every execution of tick finds at least one process in the queue    *)
(* and steps that first process; a tick that process.nextTick was asked    *)
(* for never runs on an empty queue, whatever the calls of activate, those *)
(* made by a task while its own process is stepped included.               *)
(***************************************************************************)
C29_TickFindsAProcess ==
    stepped.op = "tick" =>
        /\ stepped.found >= 1
        /\ stepped.id >= 1
        /\ ~stepped.throws

\* A tick has run on an empty queue, and has thrown.
C29_Witness ==
    /\ stepped.op = "tick"
    /\ stepped.found = 0
    /\ stepped.throws
    /\ processes = <<>>

\* The node n is in the queue of the engine.
Queued(n) ==
    \E i \in DOMAIN nodes_to_be_recalculated : nodes_to_be_recalculated[i] = n

\* The sequence s is the start of the sequence t.
IsPrefix(s, t) == Len(s) <= Len(t) /\ SubSeq(t, 1, Len(s)) = s

(***************************************************************************)
(* C30: whenever the queue of nodes to be recalculated is not empty when a *)
(* call of the client or a run of the engine ends, a run of run_engine is  *)
(* pending; a run recalculates one node, the first of the queue, and the   *)
(* nodes behind it keep their order, a call that is not a run keeps the    *)
(* whole queue; so every node in the queue is eventually recalculated.     *)
(***************************************************************************)
C30_QueuedNodesAreRecalculated ==
    /\ [](Len(nodes_to_be_recalculated) > 0 => immediates >= 1)
    /\ [][IF ran'.op = "run_engine" /\ Len(nodes_to_be_recalculated) > 0
          THEN /\ ran'.node = Head(nodes_to_be_recalculated)
               /\ IsPrefix(Tail(nodes_to_be_recalculated),
                           nodes_to_be_recalculated')
          ELSE IsPrefix(nodes_to_be_recalculated,
                        nodes_to_be_recalculated')]_vars
    /\ \A n \in Functions :
           Queued(n) ~> (ran.op = "run_engine" /\ ran.node = n)

\* A run of the engine has recalculated a node whose value changed, two
\* nodes wait in the queue behind it and a run is pending.
C30_Witness ==
    /\ ran.op = "run_engine"
    /\ ran.changed
    /\ Len(nodes_to_be_recalculated) >= 2
    /\ immediates >= 1

====
